---- MODULE Spec2Model ----
(***************************************************************************)
(* A model of paragraf's ingestion pipeline (LovdataSyncService in         *)
(* sqlite_backend.py) and of its retry layer (with_retry in                *)
(* _supabase_utils.py).                                                    *)
(*                                                                         *)
(* The SQLite database is modelled at the granularity a second connection  *)
(* can observe: documents, sections, sections_fts and sync_meta are the    *)
(* COMMITTED tables; conn is the private view of the connection that       *)
(* _index_directory holds open (its uncommitted transaction).  Readers     *)
(* (get_document, get_section, ...) open their own connection and therefore *)
(* read the committed tables.                                              *)
(***************************************************************************)
EXTENDS Integers, Sequences, FiniteSets, TLC

VARIABLES
    remote_lm,      \* dataset -> lastModified the listing endpoint reports
    dir,            \* dataset -> (file name -> file content): target_dir on disk
    documents,      \* committed table documents: dok_id -> row
    sections,       \* committed table sections: <<dok_id, section_id>> -> content
    sections_fts,   \* committed table sections_fts: set of <<dok_id, section_id, content>>
    sync_meta,      \* committed table sync_meta: dataset -> row
    conn,           \* the connection of _index_directory: closed, or its view of the tables
    pc,             \* position of the sync job
    job,            \* locals of sync_all
    run,            \* locals of the running sync_dataset / _index_directory
    synced,         \* history: dataset -> the dok_ids of the successfully synced archives,
                    \*          the remote lastModified when the latest of them ended,
                    \*          and the archive of the latest of them
    reader,         \* a call of get_section or list_sections on its own connection
    rpc,            \* with_retry: position of the wrapper
    rt,             \* with_retry: locals of the wrapper and the record of its invocations
    store,          \* the backend as the query engine reads it (see the query model)
    q,              \* the latest call of a query operation and its outcome
    embeddings      \* hybrid search: the queries whose embedding is cached

syncVars == <<remote_lm, dir, documents, sections, sections_fts, sync_meta,
              conn, pc, job, run, synced>>
retryVars == <<rpc, rt>>
queryVars == <<store, q, embeddings>>
vars == <<remote_lm, dir, documents, sections, sections_fts, sync_meta,
          conn, pc, job, run, synced, reader, rpc, rt, store, q, embeddings>>

(***************************************************************************)
(* Bounds of the model.                                                    *)
(***************************************************************************)
\* The listing endpoint's lastModified takes the values 1..MaxTime.
MaxTime == 2

(***************************************************************************)
(* Values.                                                                 *)
(***************************************************************************)
\* Python's None and a present optional value.
None == << >>
Some(x) == << x >>

EmptyFn == [k \in {} |-> k]
\* INSERT OR REPLACE of one row keyed by k.
Upsert(f, k, v) == [x \in (DOMAIN f) \cup {k} |-> IF x = k THEN v ELSE f[x]]

\* DATASETS, in the dict's iteration order.
DATASETS == << "lover", "forskrifter" >>
DatasetNames == {DATASETS[i] : i \in 1..Len(DATASETS)}

\* doc_type = "lov" if dataset_name == "lover" else "forskrift"
doc_type_of(dataset_name) == IF dataset_name = "lover" THEN "lov" ELSE "forskrift"

(***************************************************************************)
(* Archive entries.  A file is what _parse_xml and _parse_sections read    *)
(* from it: whether it can be read at all, its dok_id and its sections in  *)
(* document order, each a pair <<section_id, content>>.                    *)
(***************************************************************************)
L1a == [ok |-> TRUE, dok_id |-> "lov/1",
        secs |-> << <<"1", "a">>, <<"2", "b">> >>]
\* a later version of lov/1: section 1 reworded, section 2 repealed, a new
\* section 3 whose paragraph elements are empty
L1b == [ok |-> TRUE, dok_id |-> "lov/1",
        secs |-> << <<"1", "c">>, <<"3", "">> >>]
L2 == [ok |-> TRUE, dok_id |-> "lov/2", secs |-> << <<"1", "a">> >>]
F1 == [ok |-> TRUE, dok_id |-> "forskrift/1", secs |-> << <<"1", "a">> >>]
\* a file that cannot be decoded: _parse_xml returns None for it
Unreadable == [ok |-> FALSE, dok_id |-> "", secs |-> << >>]

FileNames(ds) == IF ds = "lover" THEN {"l1.xml", "l2.xml"} ELSE {"f1.xml"}

Contents(f) ==
    CASE f = "l1.xml" -> {L1a, L1b}
      [] f = "l2.xml" -> {L2, Unreadable}
      [] OTHER -> {F1}

AllFileNames == FileNames("lover") \cup FileNames("forskrifter")

AllContents == UNION {Contents(f) : f \in FileNames("lover") \cup FileNames("forskrifter")}

\* The archives the remote may serve for a dataset: member name -> file.
Archives(ds) ==
    UNION { {a \in [S -> AllContents] : \A f \in S : a[f] \in Contents(f)}
            : S \in SUBSET FileNames(ds) }

AllArchives == Archives("lover") \cup Archives("forskrifter")

\* The most statements one _insert_document executes.
MaxStatements ==
    CHOOSE n \in 1..8 : /\ \A c \in AllContents : 1 + Len(c.secs) <= n
                        /\ \E c \in AllContents : 1 + Len(c.secs) = n

\* The dok_ids of an archive's entries.
ArchiveDokIds(a) == {a[f].dok_id : f \in {g \in DOMAIN a : a[g].ok}}

(***************************************************************************)
(* _index_directory and its helpers.                                       *)
(***************************************************************************)
Closed == [open |-> FALSE]

\* _parse_xml: None when the file cannot be read, else the document.
_parse_xml(file) == IF file.ok THEN Some(file) ELSE None

\* A loop that adds the new content to the content of a row it finds.
RECURSIVE InsertSectionsAppending(_, _, _, _)
InsertSectionsAppending(secs_tab, dok_id, secs, n) ==
    IF n = 0 THEN secs_tab
    ELSE LET tab == InsertSectionsAppending(secs_tab, dok_id, secs, n - 1)
             k == << dok_id, secs[n][1] >>
         IN  Upsert(tab, k, IF k \in DOMAIN tab THEN tab[k] \o secs[n][2]
                            ELSE secs[n][2])

\* The loop of _insert_document over the parsed sections: INSERT OR REPLACE
\* of the first n sections, in document order.
RECURSIVE InsertSections(_, _, _, _)
InsertSections(secs_tab, dok_id, secs, n) ==
    IF n = 0 THEN secs_tab
    ELSE Upsert(InsertSections(secs_tab, dok_id, secs, n - 1),
                << dok_id, secs[n][1] >>, secs[n][2])

\* _insert_document on the connection view c.  done is the number of
\* statements that complete: 1 + Len(doc.secs) when none raises, fewer when
\* statement done+1 raises (the exception leaves the earlier statements in
\* the open transaction).  INSERT OR REPLACE INTO documents names no
\* is_current column, so the new row takes the column default 1.
_insert_document(c, doc, doc_type, done) ==
    IF done = 0 THEN c
    ELSE [c EXCEPT
            !.documents = Upsert(c.documents, doc.dok_id,
                                 [doc_type |-> doc_type, is_current |-> TRUE]),
            !.sections = InsertSections(c.sections, doc.dok_id, doc.secs, done - 1)]

\* _mark_non_current on the documents table.
_mark_non_current(docs, doc_type, current_dok_ids) ==
    IF current_dok_ids = {} THEN docs
    ELSE [d \in DOMAIN docs |->
            IF docs[d].doc_type = doc_type /\ docs[d].is_current
               /\ d \notin current_dok_ids
            THEN [docs[d] EXCEPT !.is_current = FALSE]
            ELSE IF docs[d].doc_type = doc_type /\ ~docs[d].is_current
                    /\ d \in current_dok_ids
            THEN [docs[d] EXCEPT !.is_current = TRUE]
            ELSE docs[d]]

\* _rebuild_fts_index: DELETE FROM sections_fts, then one row per section
\* whose content is not empty.
_rebuild_fts_index(secs_tab) ==
    { << k[1], k[2], secs_tab[k] >> : k \in {j \in DOMAIN secs_tab : secs_tab[j] # ""} }

(***************************************************************************)
(* Readers.  Each opens its own connection: it reads the committed tables. *)
(* Identifiers in this model are canonical dok_ids, on which _normalize_id *)
(* is the identity.                                                        *)
(***************************************************************************)
get_document(dok_id) ==
    IF dok_id \in DOMAIN documents
    THEN Some([dok_id |-> dok_id, doc_type |-> documents[dok_id].doc_type,
               is_current |-> documents[dok_id].is_current])
    ELSE None

\* The first SELECT of get_section and of list_sections: the document row.
select_doc(docs, dok_id) == IF dok_id \in DOMAIN docs THEN Some(dok_id) ELSE None

\* The second SELECT of get_section, on the row doc of the first.
select_section(secs, doc, section_id) ==
    IF doc # None /\ << doc[1], section_id >> \in DOMAIN secs
    THEN Some([dok_id |-> doc[1], section_id |-> section_id,
               content |-> secs[<< doc[1], section_id >>]])
    ELSE None

\* The second SELECT of list_sections, on the row doc of the first: the
\* section ids listed for the document (their order is not modelled here).
select_sections(secs, doc) ==
    IF doc # None
    THEN {k[2] : k \in {j \in DOMAIN secs : j[1] = doc[1]}}
    ELSE {}

\* get_section and list_sections when nothing commits between their two
\* SELECTs.
get_section(dok_id, section_id) ==
    select_section(sections, select_doc(documents, dok_id), section_id)

list_sections(dok_id) == select_sections(sections, select_doc(documents, dok_id))

\* get_sections_batch: the found sections, in the requested order.
get_sections_batch(dok_id, section_ids) ==
    IF dok_id \in DOMAIN documents
    THEN SelectSeq(section_ids, LAMBDA s : << dok_id, s >> \in DOMAIN sections)
    ELSE << >>

\* _get_local_last_modified
_get_local_last_modified(dataset_name) ==
    IF dataset_name \in DOMAIN sync_meta
    THEN sync_meta[dataset_name].last_modified
    ELSE None

\* _get_indexed_count
_get_indexed_count(dataset_name) ==
    Cardinality({d \in DOMAIN documents :
                    documents[d].doc_type = doc_type_of(dataset_name)})

(***************************************************************************)
(* The sync job: sync_all over DATASETS, or sync_cli --dataset, which      *)
(* calls sync_dataset for one dataset.                                     *)
(***************************************************************************)
\* The locals of sync_dataset / _index_directory before the call.
NoRun == [force |-> FALSE, remote_modified |-> None, tmp |-> EmptyFn,
          downloaded |-> FALSE, file_count |-> 0, todo |-> {}, seen |-> {},
          indexed |-> 0, total_sections |-> 0, committed |-> FALSE,
          stats |-> None]

\* No job is running.  all: the job is sync_all (else sync_cli --dataset).
NoJob == [all |-> FALSE, queue |-> << >>, force |-> FALSE,
          results |-> EmptyFn, interrupted |-> FALSE]

\* the dataset the job is at
cur == Head(job.queue)

\* results[dataset_name] = -1
Failure == [failed |-> TRUE]

SyncInit ==
    /\ remote_lm = [ds \in DatasetNames |-> 1]
    /\ dir = [ds \in DatasetNames |-> EmptyFn]
    /\ documents = EmptyFn
    /\ sections = EmptyFn
    /\ sections_fts = {}
    /\ sync_meta = EmptyFn
    /\ conn = Closed
    /\ pc = "idle"
    /\ job = NoJob
    /\ run = NoRun
    /\ synced = [ds \in DatasetNames |->
                   [dok_ids |-> {}, remote |-> None, archive |-> None]]
    /\ reader = [at |-> "idle"]

\* The remote publishes a new dump of a dataset.
RemotePublish(ds) ==
    /\ remote_lm[ds] < MaxTime
    /\ remote_lm' = [remote_lm EXCEPT ![ds] = @ + 1]
    /\ UNCHANGED << reader, retryVars, queryVars >>
    /\ UNCHANGED << dir, documents, sections, sections_fts, sync_meta, conn,
                    pc, job, run, synced >>

\* sync_all(force): results = {} and the loop calls sync_dataset for the
\* first dataset.
sync_all(force) ==
    /\ pc = "idle"
    /\ job' = [all |-> TRUE, queue |-> DATASETS, force |-> force,
               results |-> EmptyFn, interrupted |-> FALSE]
    /\ run' = [NoRun EXCEPT !.force = force]
    /\ pc' = "start"
    /\ UNCHANGED << reader, retryVars, queryVars >>
    /\ UNCHANGED << remote_lm, dir, documents, sections, sections_fts,
                    sync_meta, conn, synced >>

\* sync_cli with --dataset: sync_dataset(args.dataset, ..., force=args.force).
sync_cli(dataset, force) ==
    /\ pc = "idle"
    /\ job' = [NoJob EXCEPT !.queue = << dataset >>]
    /\ run' = [NoRun EXCEPT !.force = force]
    /\ pc' = "start"
    /\ UNCHANGED << reader, retryVars, queryVars >>
    /\ UNCHANGED << remote_lm, dir, documents, sections, sections_fts,
                    sync_meta, conn, synced >>

\* The freshness test with < for <=.
UpToDateStrict(force, remote_modified, local_modified) ==
    /\ ~force
    /\ remote_modified # None
    /\ local_modified # None
    /\ remote_modified[1] < local_modified[1]

\* The freshness test of sync_dataset.
UpToDate(force, remote_modified, local_modified) ==
    /\ ~force
    /\ remote_modified # None
    /\ local_modified # None
    /\ remote_modified[1] <= local_modified[1]

\* sync_dataset up to the freshness check.  listing_ok: whether the listing
\* endpoint answered with an entry for the file (else _get_remote_last_modified
\* returns None).
sync_dataset_check(listing_ok) ==
    /\ pc = "start"
    /\ LET remote_modified == IF listing_ok THEN Some(remote_lm[cur]) ELSE None
           local_modified == _get_local_last_modified(cur)
       IN IF UpToDate(run.force, remote_modified, local_modified)
          THEN /\ run' = [NoRun EXCEPT
                            !.remote_modified = remote_modified,
                            !.stats = Some([docs |-> _get_indexed_count(cur),
                                            up_to_date |-> TRUE])]
               /\ pc' = "returned"
          ELSE /\ run' = [NoRun EXCEPT !.remote_modified = remote_modified]
               /\ pc' = "download"
    /\ UNCHANGED << reader, retryVars, queryVars >>
    /\ UNCHANGED << remote_lm, dir, documents, sections, sections_fts,
                    sync_meta, conn, job, synced >>

\* The streaming download into the temp file.
download(archive) ==
    /\ pc = "download"
    /\ archive \in Archives(cur)
    /\ run' = [run EXCEPT !.tmp = archive, !.downloaded = TRUE]
    /\ pc' = "extract"
    /\ UNCHANGED << reader, retryVars, queryVars >>
    /\ UNCHANGED << remote_lm, dir, documents, sections, sections_fts,
                    sync_meta, conn, job, synced >>

\* tar.extract of the members in members: a file of the same name is
\* overwritten, every other file of target_dir stays.
Extracted(target, archive, members) ==
    [f \in (DOMAIN target) \cup members |->
        IF f \in members THEN archive[f] ELSE target[f]]

\* extract as it would be if the sync metadata were written once the
\* archive is unpacked, before the indexing.
extract_then_meta ==
    /\ pc = "extract"
    /\ dir' = [dir EXCEPT ![cur] = Extracted(@, run.tmp, DOMAIN run.tmp)]
    /\ run' = [run EXCEPT !.file_count = Cardinality(DOMAIN run.tmp),
                          !.todo = DOMAIN dir'[cur]]
    /\ conn' = [open |-> TRUE, documents |-> documents, sections |-> sections]
    /\ sync_meta' = Upsert(sync_meta, cur,
                           [last_modified |-> run.remote_modified,
                            file_count |-> Cardinality(DOMAIN run.tmp)])
    /\ pc' = "index"
    /\ UNCHANGED << reader, retryVars, queryVars >>
    /\ UNCHANGED << remote_lm, documents, sections, sections_fts, job, synced >>

\* Extraction of every .xml member, then the start of _index_directory:
\* xml_files = directory.glob("*.xml") and the connection is opened.
extract ==
    /\ pc = "extract"
    /\ dir' = [dir EXCEPT ![cur] = Extracted(@, run.tmp, DOMAIN run.tmp)]
    /\ run' = [run EXCEPT !.file_count = Cardinality(DOMAIN run.tmp),
                          !.todo = DOMAIN dir'[cur]]
    /\ conn' = [open |-> TRUE, documents |-> documents, sections |-> sections]
    /\ pc' = "index"
    /\ UNCHANGED << reader, retryVars, queryVars >>
    /\ UNCHANGED << remote_lm, documents, sections, sections_fts, sync_meta,
                    job, synced >>

\* index_file as it would be on a connection in autocommit mode: every
\* statement is visible to the readers at once.
index_file_autocommit(f, done) ==
    /\ pc = "index"
    /\ f \in run.todo
    /\ LET doc == _parse_xml(dir[cur][f])
       IN IF doc = None
          THEN /\ done = 0
               /\ conn' = conn
          ELSE /\ done = 1 + Len(doc[1].secs)
               /\ conn' = _insert_document(conn, doc[1], doc_type_of(cur), done)
    /\ run' = [run EXCEPT !.todo = @ \ {f},
                          !.seen = IF _parse_xml(dir[cur][f]) = None THEN @
                                   ELSE @ \cup {dir[cur][f].dok_id}]
    /\ documents' = conn'.documents
    /\ sections' = conn'.sections
    /\ UNCHANGED << reader, retryVars, queryVars >>
    /\ UNCHANGED << remote_lm, dir, sections_fts, sync_meta, pc, job, synced >>

\* One iteration of the loop of _index_directory, on file f.  done is the
\* number of statements of _insert_document that complete (all of them
\* unless one raises; the loop catches the exception and goes on).
index_file(f, done) ==
    /\ pc = "index"
    /\ f \in run.todo
    /\ LET doc == _parse_xml(dir[cur][f])
       IN IF doc = None
          THEN /\ done = 0
               /\ run' = [run EXCEPT !.todo = @ \ {f}]
               /\ conn' = conn
          ELSE /\ done <= 1 + Len(doc[1].secs)
               /\ conn' = _insert_document(conn, doc[1], doc_type_of(cur), done)
               /\ run' = IF done = 1 + Len(doc[1].secs)
                         THEN [run EXCEPT !.todo = @ \ {f},
                                          !.seen = @ \cup {doc[1].dok_id},
                                          !.indexed = @ + 1,
                                          !.total_sections = @ + Len(doc[1].secs)]
                         ELSE [run EXCEPT !.todo = @ \ {f},
                                          !.seen = @ \cup {doc[1].dok_id}]
    /\ UNCHANGED << reader, retryVars, queryVars >>
    /\ UNCHANGED << remote_lm, dir, documents, sections, sections_fts,
                    sync_meta, pc, job, synced >>

\* After the loop: _mark_non_current, then conn.commit().
reconcile_commit ==
    /\ pc = "index"
    /\ run.todo = {}
    /\ LET docs == _mark_non_current(conn.documents, doc_type_of(cur), run.seen)
       IN /\ documents' = docs
          /\ sections' = conn.sections
          /\ conn' = [conn EXCEPT !.documents = docs]
    /\ run' = [run EXCEPT !.committed = TRUE]
    /\ pc' = "fts"
    /\ UNCHANGED << reader, retryVars, queryVars >>
    /\ UNCHANGED << remote_lm, dir, sections_fts, sync_meta, job, synced >>

\* _rebuild_fts_index in a new transaction, committed as the with block ends.
rebuild_fts ==
    /\ pc = "fts"
    /\ sections_fts' = _rebuild_fts_index(conn.sections)
    /\ conn' = Closed
    /\ pc' = "meta"
    /\ UNCHANGED << reader, retryVars, queryVars >>
    /\ UNCHANGED << remote_lm, dir, documents, sections, sync_meta, job, run,
                    synced >>

\* _update_sync_meta, and sync_dataset returns its stats.
update_sync_meta ==
    /\ pc = "meta"
    /\ sync_meta' = Upsert(sync_meta, cur,
                           [last_modified |-> run.remote_modified,
                            file_count |-> run.file_count])
    /\ run' = [run EXCEPT !.stats = Some([docs |-> run.indexed,
                                          sections |-> run.total_sections])]
    /\ synced' = [synced EXCEPT ![cur] =
                    [dok_ids |-> @.dok_ids \cup ArchiveDokIds(run.tmp),
                     remote |-> Some(remote_lm[cur]),
                     archive |-> Some(run.tmp)]]
    /\ pc' = "returned"
    /\ UNCHANGED << reader, retryVars, queryVars >>
    /\ UNCHANGED << remote_lm, dir, documents, sections, sections_fts, conn, job >>

\* sync_all_after with the Exception handler leaving the loop.
sync_all_after_stop(outcome) ==
    CASE outcome = "KeyboardInterrupt" ->
            /\ job' = [job EXCEPT !.interrupted = TRUE]
            /\ run' = NoRun
            /\ pc' = "done"
      [] outcome = "Exception" ->
            /\ job' = [job EXCEPT !.results = Upsert(@, cur, Failure)]
            /\ run' = NoRun
            /\ pc' = "done"
      [] OTHER ->
            /\ job' = [job EXCEPT !.results = Upsert(@, cur, run.stats[1]),
                                  !.queue = Tail(@)]
            /\ run' = [NoRun EXCEPT !.force = job.force]
            /\ pc' = IF Tail(job.queue) = << >> THEN "done" ELSE "start"

\* sync_all_after with the KeyboardInterrupt handler going on with the loop.
sync_all_after_continue(outcome) ==
    CASE outcome = "KeyboardInterrupt" ->
            /\ job' = [job EXCEPT !.interrupted = TRUE, !.queue = Tail(@)]
            /\ run' = [NoRun EXCEPT !.force = job.force]
            /\ pc' = IF Tail(job.queue) = << >> THEN "done" ELSE "start"
      [] outcome = "Exception" ->
            /\ job' = [job EXCEPT !.results = Upsert(@, cur, Failure),
                                  !.queue = Tail(@)]
            /\ run' = [NoRun EXCEPT !.force = job.force]
            /\ pc' = IF Tail(job.queue) = << >> THEN "done" ELSE "start"
      [] OTHER ->
            /\ job' = [job EXCEPT !.results = Upsert(@, cur, run.stats[1]),
                                  !.queue = Tail(@)]
            /\ run' = [NoRun EXCEPT !.force = job.force]
            /\ pc' = IF Tail(job.queue) = << >> THEN "done" ELSE "start"

\* The handlers of the loop of sync_all, once sync_dataset has ended for the
\* dataset at the head of the queue: outcome is "return", "Exception" or
\* "KeyboardInterrupt".
sync_all_after(outcome) ==
    CASE outcome = "KeyboardInterrupt" ->
            \* break
            /\ job' = [job EXCEPT !.interrupted = TRUE]
            /\ run' = NoRun
            /\ pc' = "done"
      [] outcome = "Exception" ->
            \* results[dataset_name] = -1, and the loop goes on
            /\ job' = [job EXCEPT !.results = Upsert(@, cur, Failure),
                                  !.queue = Tail(@)]
            /\ run' = [NoRun EXCEPT !.force = job.force]
            /\ pc' = IF Tail(job.queue) = << >> THEN "done" ELSE "start"
      [] OTHER ->
            \* results[dataset_name] = stats, and the loop goes on
            /\ job' = [job EXCEPT !.results = Upsert(@, cur, run.stats[1]),
                                  !.queue = Tail(@)]
            /\ run' = [NoRun EXCEPT !.force = job.force]
            /\ pc' = IF Tail(job.queue) = << >> THEN "done" ELSE "start"

\* sync_cli --dataset has no handler: the stats are printed, an exception
\* ends the process.
sync_cli_after(outcome) ==
    /\ job' = IF outcome = "return"
              THEN [job EXCEPT !.results = Upsert(@, cur, run.stats[1]),
                               !.queue = Tail(@)]
              ELSE [job EXCEPT !.interrupted = (outcome = "KeyboardInterrupt")]
    /\ run' = NoRun
    /\ pc' = "done"

caller_after(outcome) ==
    IF job.all THEN sync_all_after(outcome) ELSE sync_cli_after(outcome)

\* sync_dataset returns to its caller.
sync_dataset_return ==
    /\ pc = "returned"
    /\ caller_after("return")
    /\ UNCHANGED << reader, retryVars, queryVars >>
    /\ UNCHANGED << remote_lm, dir, documents, sections, sections_fts,
                    sync_meta, conn, synced >>

\* An exception (kind "Exception") or a KeyboardInterrupt leaves sync_dataset
\* at one of its steps.  The with block of _index_directory rolls the open
\* transaction back.
raise(kind) ==
    /\ pc \in {"start", "download", "index", "fts", "meta"}
    /\ conn' = Closed
    /\ caller_after(kind)
    /\ UNCHANGED << reader, retryVars, queryVars >>
    /\ UNCHANGED << remote_lm, dir, documents, sections, sections_fts,
                    sync_meta, synced >>

\* The extraction fails after the members in members were written.
extract_fails(members, kind) ==
    /\ pc = "extract"
    /\ members \subseteq DOMAIN run.tmp
    /\ members # DOMAIN run.tmp \/ members = {}
    /\ dir' = [dir EXCEPT ![cur] = Extracted(@, run.tmp, members)]
    /\ caller_after(kind)
    /\ UNCHANGED << reader, retryVars, queryVars >>
    /\ UNCHANGED << remote_lm, documents, sections, sections_fts, sync_meta,
                    conn, synced >>

\* The job has ended: its caller has the results.
job_ends ==
    /\ pc = "done"
    /\ job' = NoJob
    /\ pc' = "idle"
    /\ UNCHANGED << reader, retryVars, queryVars >>
    /\ UNCHANGED << remote_lm, dir, documents, sections, sections_fts,
                    sync_meta, conn, run, synced >>

Kinds == {"Exception", "KeyboardInterrupt"}

\* The number of statements of _insert_document on file f when none raises.
Statements(f) == IF f \in run.todo THEN 1 + Len(dir[cur][f].secs) ELSE 0

(***************************************************************************)
(* Spec: runs of sync_cli --dataset lover, over every archive.             *)
(***************************************************************************)
SyncNext ==
    \/ RemotePublish("lover")
    \/ \E force \in BOOLEAN : sync_cli("lover", force)
    \/ \E listing_ok \in BOOLEAN : sync_dataset_check(listing_ok)
    \/ \E a \in AllArchives : download(a)
    \/ extract
    \/ \E f \in AllFileNames : index_file(f, Statements(f))
    \/ reconcile_commit
    \/ rebuild_fts
    \/ update_sync_meta
    \/ sync_dataset_return
    \/ \E kind \in Kinds : raise(kind)
    \/ \E kind \in Kinds, members \in SUBSET AllFileNames :
         extract_fails(members, kind)
    \/ job_ends

(***************************************************************************)
(* ReingestSpec: runs of sync_cli --dataset lover that all complete, so    *)
(* that two syncs of the same archive follow each other with nothing in    *)
(* between.                                                                *)
(***************************************************************************)
ReingestNext ==
    \/ RemotePublish("lover")
    \/ \E force \in BOOLEAN : sync_cli("lover", force)
    \/ \E listing_ok \in BOOLEAN : sync_dataset_check(listing_ok)
    \/ \E a \in AllArchives : download(a)
    \/ extract
    \/ \E f \in AllFileNames : index_file(f, Statements(f))
    \/ reconcile_commit
    \/ rebuild_fts
    \/ update_sync_meta
    \/ sync_dataset_return
    \/ job_ends

(***************************************************************************)
(* UpsertSpec: runs of sync_cli --dataset lover in which a statement of    *)
(* _insert_document can raise; the loop of _index_directory catches the    *)
(* exception and goes on with the next file.                               *)
(***************************************************************************)
UpsertNext ==
    \/ RemotePublish("lover")
    \/ \E force \in BOOLEAN : sync_cli("lover", force)
    \/ \E listing_ok \in BOOLEAN : sync_dataset_check(listing_ok)
    \/ \E a \in AllArchives : download(a)
    \/ extract
    \/ \E f \in AllFileNames, done \in 0..MaxStatements : index_file(f, done)
    \/ reconcile_commit
    \/ rebuild_fts
    \/ update_sync_meta
    \/ sync_dataset_return
    \/ job_ends

(***************************************************************************)
(* SpecAll: runs of sync_all over both datasets, on a few archives.        *)
(***************************************************************************)
SmallArchives == { ("l1.xml" :> L1a), ("l1.xml" :> L1b), ("f1.xml" :> F1) }

AllNext ==
    \/ \E ds \in DatasetNames : RemotePublish(ds)
    \/ \E force \in BOOLEAN : sync_all(force)
    \/ \E listing_ok \in BOOLEAN : sync_dataset_check(listing_ok)
    \/ \E a \in SmallArchives : download(a)
    \/ extract
    \/ \E f \in AllFileNames : index_file(f, Statements(f))
    \/ reconcile_commit
    \/ rebuild_fts
    \/ update_sync_meta
    \/ sync_dataset_return
    \/ \E kind \in Kinds : raise(kind)
    \/ \E kind \in Kinds : extract_fails({}, kind)
    \/ job_ends

(***************************************************************************)
(* A reader that runs beside the job.  get_section and list_sections run   *)
(* two SELECTs on a connection of their own, outside any transaction: a    *)
(* commit of the job can fall between the two.                             *)
(***************************************************************************)
NoReader == [at |-> "idle"]

ReaderOps == {"get_section", "list_sections"}

\* What the call returns when both SELECTs see the committed tables of one
\* state.
AtomicRead(op, dok_id, section_id) ==
    IF op = "get_section"
    THEN get_section(dok_id, section_id)
    ELSE Some(list_sections(dok_id))

\* The first SELECT.  atomic is a history field: the value the call would
\* return if it ended in this state.
reader_find(op, dok_id, section_id) ==
    /\ reader = NoReader
    /\ reader' = [at |-> "found", op |-> op, dok_id |-> dok_id,
                  section_id |-> section_id,
                  doc |-> select_doc(documents, dok_id),
                  atomic |-> AtomicRead(op, dok_id, section_id)]
    /\ UNCHANGED << syncVars, retryVars, queryVars >>

\* The second SELECT.
reader_fetch ==
    /\ reader.at = "found"
    /\ reader' = [at |-> "done", op |-> reader.op,
                  result |-> IF reader.op = "get_section"
                             THEN select_section(sections, reader.doc,
                                                 reader.section_id)
                             ELSE Some(select_sections(sections, reader.doc))]
    /\ UNCHANGED << syncVars, retryVars, queryVars >>

reader_return ==
    /\ reader.at = "done"
    /\ reader' = NoReader
    /\ UNCHANGED << syncVars, retryVars, queryVars >>

(***************************************************************************)
(* ReadSpec: forced and unforced runs of sync_cli --dataset lover on two   *)
(* versions of one document, with a reader beside them.                    *)
(***************************************************************************)
ReadArchives == { ("l1.xml" :> L1a), ("l1.xml" :> L1b) }

ReadNext ==
    \/ \E force \in BOOLEAN : sync_cli("lover", force)
    \/ \E listing_ok \in BOOLEAN : sync_dataset_check(listing_ok)
    \/ \E a \in ReadArchives : download(a)
    \/ extract
    \/ \E f \in AllFileNames : index_file(f, Statements(f))
    \/ reconcile_commit
    \/ rebuild_fts
    \/ update_sync_meta
    \/ sync_dataset_return
    \/ \E kind \in Kinds : raise(kind)
    \/ job_ends
    \/ \E op \in ReaderOps, s \in {"1", "2"} : reader_find(op, "lov/1", s)
    \/ reader_fetch
    \/ reader_return

(***************************************************************************)
(* with_retry (_supabase_utils.py).                                        *)
(***************************************************************************)
RETRY_MAX_ATTEMPTS == 3
\* RETRY_BACKOFF_BASE and RETRY_BACKOFF_MAX, in milliseconds.
RETRY_BACKOFF_BASE == 500
RETRY_BACKOFF_MAX == 30000
RETRY_JITTER == TRUE

\* The largest max_attempts a caller passes in this model.
MaxAttempts == 3

\* What the wrapped function can raise.  The first four are the classes of
\* this module; the others are classified by classify_error.
SupabaseErrors ==
    { [cls |-> "TransientError"], [cls |-> "PermanentError"],
      [cls |-> "SupabaseError"] }
    \cup { [cls |-> "RateLimitError", retry_after |-> r] : r \in {None, Some(0), Some(2), Some(60)} }

HttpxNetworkErrors ==
    { [cls |-> c] : c \in {"TimeoutException", "ConnectError", "ConnectionError"} }

APIErrors ==
    { [cls |-> "APIError", code |-> c, jwt |-> j, unique |-> u] :
        c \in {"", "PGRST301", "23505", "503", "PGRST500", "42501"},
        j \in BOOLEAN, u \in BOOLEAN }

HTTPStatusErrors ==
    { [cls |-> "HTTPStatusError", status |-> st, retry_after |-> r] :
        st \in {400, 401, 404, 409, 429, 500, 501, 502, 503, 504},
        r \in {None, Some(2)} }

OtherErrors == { [cls |-> "ValueError"] }

Raised == SupabaseErrors \cup HttpxNetworkErrors \cup APIErrors
             \cup HTTPStatusErrors \cup OtherErrors

\* code.startswith(prefix)
StartsWith(code, prefix) ==
    /\ Len(code) >= Len(prefix)
    /\ SubSeq(code, 1, Len(prefix)) = prefix

\* isinstance(e, TransientError): RateLimitError is a subclass.
IsTransient(e) == e.cls \in {"TransientError", "RateLimitError"}

\* classify_error
classify_error(e) ==
    IF e.cls \in {"TimeoutException", "ConnectError", "ConnectionError"}
    THEN [cls |-> "TransientError"]
    ELSE IF e.cls = "APIError"
    THEN IF StartsWith(e.code, "PGRST3") \/ e.jwt
         THEN [cls |-> "PermanentError"]
         ELSE IF e.code = "23505" \/ e.unique
         THEN [cls |-> "PermanentError"]
         ELSE IF StartsWith(e.code, "5") \/ StartsWith(e.code, "PGRST5")
         THEN [cls |-> "TransientError"]
         ELSE [cls |-> "PermanentError"]
    ELSE IF e.cls = "HTTPStatusError"
    THEN IF e.status = 429
         THEN [cls |-> "RateLimitError", retry_after |-> e.retry_after]
         ELSE IF e.status \in {500, 502, 503, 504}
         THEN [cls |-> "TransientError"]
         ELSE [cls |-> "PermanentError"]
    ELSE [cls |-> "TransientError"]

Min(a, b) == IF a <= b THEN a ELSE b

RECURSIVE Pow2(_)
Pow2(n) == IF n = 0 THEN 1 ELSE 2 * Pow2(n - 1)

\* backoff + backoff * 0.25 * (2 * random.random() - 1), for the draw
\* jitter of 2 * random.random() - 1 in hundredths (-100 .. 99).
Jittered(backoff, jitter) ==
    IF RETRY_JITTER THEN backoff + (backoff * 25 * jitter) \div 10000
    ELSE backoff

Jitters == {-100, 0, 99}

\* max_attempts or RETRY_MAX_ATTEMPTS, ignoring the argument.
EffectiveMaxDefault(max_attempts) == RETRY_MAX_ATTEMPTS

\* max_attempts or RETRY_MAX_ATTEMPTS
EffectiveMax(max_attempts) ==
    IF max_attempts = None \/ max_attempts = Some(0)
    THEN RETRY_MAX_ATTEMPTS
    ELSE max_attempts[1]

\* The wrapper is called: the locals before the loop.  calls, last_raised
\* and slept are history fields: the number of invocations of func, what the
\* last one raised, and the sleeps in milliseconds.  With _max >= 1 the loop
\* ends by a return or a raise, and the statements after it are not reached.
with_retry_call(max_attempts) ==
    /\ rpc = "idle"
    /\ rt' = [max_attempts |-> max_attempts,
              _max |-> EffectiveMax(max_attempts),
              attempt |-> 0, calls |-> 0, last_raised |-> None,
              last_exception |-> None, slept |-> << >>, outcome |-> None]
    /\ rpc' = "loop"
    /\ UNCHANGED << syncVars, reader, queryVars >>

\* return func(*args, **kwargs), when func returns.
attempt_returns ==
    /\ rpc = "loop"
    /\ rt.attempt < rt._max
    /\ rt' = [rt EXCEPT !.calls = @ + 1, !.last_raised = None,
                        !.outcome = Some([returned |-> TRUE])]
    /\ rpc' = "returned"
    /\ UNCHANGED << syncVars, reader, queryVars >>

\* The except clauses of the loop, for the exception e that func raised.
Handle(e, jitter) ==
    IF IsTransient(e)
    THEN \* except (TransientError, RateLimitError) as e
         IF rt.attempt = rt._max - 1
         THEN /\ rt' = [rt EXCEPT !.calls = @ + 1, !.last_raised = Some(e), !.last_exception = Some(e),
                                  !.outcome = Some([raised |-> e])]
              /\ rpc' = "raised"
         ELSE LET backoff ==
                    IF e.cls = "RateLimitError" /\ e.retry_after # None
                       /\ e.retry_after # Some(0)
                    THEN Min(e.retry_after[1] * 1000, RETRY_BACKOFF_MAX)
                    ELSE Min(RETRY_BACKOFF_BASE * Pow2(rt.attempt),
                             RETRY_BACKOFF_MAX)
              IN /\ rt' = [rt EXCEPT !.calls = @ + 1, !.last_raised = Some(e),
                                     !.last_exception = Some(e),
                                     !.attempt = @ + 1,
                                     !.slept = Append(@, Jittered(backoff, jitter))]
                 /\ rpc' = "loop"
    ELSE IF e.cls = "PermanentError"
    THEN \* except PermanentError: raise
         /\ rt' = [rt EXCEPT !.calls = @ + 1, !.last_raised = Some(e), !.outcome = Some([raised |-> e])]
         /\ rpc' = "raised"
    ELSE \* except Exception as e
         LET classified == IF e.cls = "SupabaseError" THEN e
                           ELSE classify_error(e)
         IN IF IsTransient(classified)
            THEN IF rt.attempt = rt._max - 1
                 THEN /\ rt' = [rt EXCEPT !.calls = @ + 1, !.last_raised = Some(e),
                                          !.last_exception = Some(classified),
                                          !.outcome = Some([raised |-> classified])]
                      /\ rpc' = "raised"
                 ELSE /\ rt' = [rt EXCEPT
                                  !.calls = @ + 1, !.last_raised = Some(e),
                                  !.last_exception = Some(classified),
                                  !.attempt = @ + 1,
                                  !.slept = Append(@,
                                      Jittered(Min(RETRY_BACKOFF_BASE * Pow2(rt.attempt),
                                                   RETRY_BACKOFF_MAX), jitter))]
                      /\ rpc' = "loop"
            ELSE /\ rt' = [rt EXCEPT !.calls = @ + 1, !.last_raised = Some(e),
                                     !.outcome = Some([raised |-> classified])]
                 /\ rpc' = "raised"

\* func raises e in the iteration the loop is at.
attempt_raises(e, jitter) ==
    /\ rpc = "loop"
    /\ rt.attempt < rt._max
    /\ Handle(e, jitter)
    /\ UNCHANGED << syncVars, reader, queryVars >>

\* The caller has the result or the exception.
wrapper_ends ==
    /\ rpc \in {"returned", "raised"}
    /\ rpc' = "idle"
    /\ rt' = << >>
    /\ UNCHANGED << syncVars, reader, queryVars >>

\* max_attempts as the callers pass it: absent, or a positive number.
MaxAttemptsArgs == {None} \cup {Some(n) : n \in 1..MaxAttempts}

RetryNext ==
    \/ \E max_attempts \in MaxAttemptsArgs : with_retry_call(max_attempts)
    \/ attempt_returns
    \/ \E e \in Raised, jitter \in Jitters : attempt_raises(e, jitter)
    \/ wrapper_ends

RetryIdle ==
    /\ rpc = "idle"
    /\ rt = << >>

(***************************************************************************)
(* The query engine (LovdataService in service.py) over the backend's      *)
(* readers (sqlite_backend.py), and hybrid search (vector_search.py).      *)
(*                                                                         *)
(* The queries compare identifiers character by character and read columns *)
(* the ingestion model leaves out (ref_id, short_title, a section's        *)
(* title).  store is the backend as one query reads it: the rows of        *)
(* documents as sqlite3.Row gives them, the sections of these documents,   *)
(* and whether the backend offers find_similar_law.  A Python str is a     *)
(* TLA+ string, read character by character with SubSeq.                   *)
(***************************************************************************)
\* s[i-1] of a Python str
Char(s, i) == SubSeq(s, i, i)

ASCII_UPPER == "ABCDEFGHIJKLMNOPQRSTUVWXYZ"
ASCII_LOWER == "abcdefghijklmnopqrstuvwxyz"
\* the letters outside ASCII that the identifiers of the model contain
NORDIC_UPPER == "ÆØÅ"
NORDIC_LOWER == "æøå"

\* the position of character c in alphabet, 0 when it is not there
IndexIn(c, alphabet) ==
    IF \E i \in 1..Len(alphabet) : Char(alphabet, i) = c
    THEN CHOOSE i \in 1..Len(alphabet) : Char(alphabet, i) = c
    ELSE 0

\* the characters of a text
CharsOf(text) == {Char(text, i) : i \in 1..Len(text)}

\* the mapping of the characters of from to those of to at the same position
CharMap(from, to) == [c \in CharsOf(from) |-> Char(to, IndexIn(c, from))]

RECURSIVE MapStr(_, _)
MapStr(s, map) ==
    IF s = "" THEN ""
    ELSE (IF Head(s) \in DOMAIN map THEN map[Head(s)] ELSE Head(s))
         \o MapStr(Tail(s), map)

LowerOf == CharMap(ASCII_UPPER \o NORDIC_UPPER, ASCII_LOWER \o NORDIC_LOWER)
UpperOf == CharMap(ASCII_LOWER \o NORDIC_LOWER, ASCII_UPPER \o NORDIC_UPPER)
SqlLowerOf == CharMap(ASCII_UPPER, ASCII_LOWER)

\* str.lower() and str.upper()
str_lower(s) == MapStr(s, LowerOf)
str_upper(s) == MapStr(s, UpperOf)

\* SQLite's LOWER() and the case folding of its LIKE: ASCII letters only
sql_lower(s) == MapStr(s, SqlLowerOf)

\* str.replace(old, new) for a one-character old
RECURSIVE str_replace(_, _, _)
str_replace(s, old, new) ==
    IF s = "" THEN ""
    ELSE (IF Head(s) = old THEN new ELSE Head(s)) \o str_replace(Tail(s), old, new)

\* the characters str.strip() removes and the regular expression's \s matches
Whitespace == {" ", "\t", "\n"}

RECURSIVE str_lstrip(_)
str_lstrip(s) ==
    IF s # "" /\ Head(s) \in Whitespace THEN str_lstrip(Tail(s)) ELSE s

RECURSIVE str_rstrip(_)
str_rstrip(s) ==
    IF s # "" /\ Char(s, Len(s)) \in Whitespace
    THEN str_rstrip(SubSeq(s, 1, Len(s) - 1))
    ELSE s

\* str.strip()
str_strip(s) == str_rstrip(str_lstrip(s))

\* s[n:]
str_from(s, n) == IF n >= Len(s) THEN "" ELSE SubSeq(s, n + 1, Len(s))

\* s[:n] for n >= 0
str_upto(s, n) == IF n >= Len(s) THEN s ELSE SubSeq(s, 1, n)

\* str.replace(old, new) for an old of any length
RECURSIVE str_replace_all(_, _, _)
str_replace_all(s, old, new) ==
    IF Len(s) < Len(old) THEN s
    ELSE IF SubSeq(s, 1, Len(old)) = old
    THEN new \o str_replace_all(str_from(s, Len(old)), old, new)
    ELSE Head(s) \o str_replace_all(Tail(s), old, new)

\* sub in s
str_contains(s, sub) ==
    \E i \in 1..(Len(s) + 1) :
        /\ i + Len(sub) - 1 <= Len(s)
        /\ SubSeq(s, i, i + Len(sub) - 1) = sub

\* LIKE on texts already folded to lower case: % matches any run of
\* characters, _ any one character.
RECURSIVE LikeFolded(_, _)
LikeFolded(value, pattern) ==
    IF pattern = "" THEN value = ""
    ELSE IF Head(pattern) = "%"
    THEN LikeFolded(value, Tail(pattern))
         \/ (value # "" /\ LikeFolded(Tail(value), pattern))
    ELSE /\ value # ""
         /\ Head(pattern) = "_" \/ Head(pattern) = Head(value)
         /\ LikeFolded(Tail(value), Tail(pattern))

\* value LIKE pattern in SQLite: ASCII letters match without regard to case.
Like(value, pattern) == LikeFolded(sql_lower(value), sql_lower(pattern))

\* LOV_ALIASES
LOV_ALIASES ==
       ("bustadoppføringslova" :> "LOV-1997-06-13-43")
    @@ ("buofl" :> "LOV-1997-06-13-43")
    @@ ("avhendingslova" :> "LOV-1992-07-03-93")
    @@ ("avhl" :> "LOV-1992-07-03-93")
    @@ ("plan-og-bygningsloven" :> "LOV-2008-06-27-71")
    @@ ("pbl" :> "LOV-2008-06-27-71")
    @@ ("byggherreforskriften" :> "FOR-2009-08-03-1028")
    @@ ("byggesaksforskriften" :> "FOR-2010-03-26-488")
    @@ ("sak10" :> "FOR-2010-03-26-488")
    @@ ("byggteknisk-forskrift" :> "FOR-2017-06-19-840")
    @@ ("tek17" :> "FOR-2017-06-19-840")
    @@ ("husleieloven" :> "LOV-1999-03-26-17")
    @@ ("husll" :> "LOV-1999-03-26-17")
    @@ ("kjøpsloven" :> "LOV-1988-05-13-27")
    @@ ("forbrukerkjøpsloven" :> "LOV-2002-06-21-34")
    @@ ("fkjl" :> "LOV-2002-06-21-34")
    @@ ("håndverkertjenesteloven" :> "LOV-1989-06-16-63")
    @@ ("hvtjl" :> "LOV-1989-06-16-63")
    @@ ("angrerettloven" :> "LOV-2014-06-20-27")
    @@ ("arbeidsmiljøloven" :> "LOV-2005-06-17-62")
    @@ ("aml" :> "LOV-2005-06-17-62")
    @@ ("ferieloven" :> "LOV-1988-04-29-21")
    @@ ("folketrygdloven" :> "LOV-1997-02-28-19")
    @@ ("ftrl" :> "LOV-1997-02-28-19")
    @@ ("forvaltningsloven" :> "LOV-1967-02-10")
    @@ ("fvl" :> "LOV-1967-02-10")
    @@ ("offentleglova" :> "LOV-2006-05-19-16")
    @@ ("offl" :> "LOV-2006-05-19-16")
    @@ ("kommuneloven" :> "LOV-2018-06-22-83")
    @@ ("koml" :> "LOV-2018-06-22-83")
    @@ ("tvisteloven" :> "LOV-2005-06-17-90")
    @@ ("tvl" :> "LOV-2005-06-17-90")
    @@ ("voldgiftsloven" :> "LOV-2004-05-14-25")
    @@ ("domstolloven" :> "LOV-1915-08-13-5")
    @@ ("anskaffelsesloven" :> "LOV-2016-06-17-73")
    @@ ("loa" :> "LOV-2016-06-17-73")
    @@ ("anskaffelsesforskriften" :> "FOR-2016-08-12-974")
    @@ ("foa" :> "FOR-2016-08-12-974")
    @@ ("skadeserstatningsloven" :> "LOV-1969-06-13-26")
    @@ ("skl" :> "LOV-1969-06-13-26")
    @@ ("avtaleloven" :> "LOV-1918-05-31-4")
    @@ ("avtl" :> "LOV-1918-05-31-4")
    @@ ("straffeloven" :> "LOV-2005-05-20-28")
    @@ ("strl" :> "LOV-2005-05-20-28")
    @@ ("personopplysningsloven" :> "LOV-2018-06-15-38")
    @@ ("popplyl" :> "LOV-2018-06-15-38")

\* LOV_NAMES
LOV_NAMES ==
       ("LOV-1997-06-13-43" :> "Lov om avtalar med forbrukar om oppføring av ny bustad m.m. (bustadoppføringslova)")
    @@ ("LOV-1992-07-03-93" :> "Lov om avhending av fast eigedom (avhendingslova)")
    @@ ("LOV-2008-06-27-71" :> "Lov om planlegging og byggesaksbehandling (plan- og bygningsloven)")
    @@ ("LOV-2005-06-17-62" :> "Lov om arbeidsmiljø, arbeidstid og stillingsvern mv. (arbeidsmiljøloven)")
    @@ ("LOV-2005-06-17-90" :> "Lov om mekling og rettergang i sivile tvister (tvisteloven)")
    @@ ("LOV-1967-02-10" :> "Lov om behandlingsmåten i forvaltningssaker (forvaltningsloven)")
    @@ ("LOV-2002-06-21-34" :> "Lov om forbrukerkjøp (forbrukerkjøpsloven)")
    @@ ("LOV-1988-05-13-27" :> "Lov om kjøp (kjøpsloven)")
    @@ ("LOV-1918-05-31-4" :> "Lov om avslutning av avtaler, om fuldmagt og om ugyldige viljeserklæringer (avtaleloven)")
    @@ ("LOV-1969-06-13-26" :> "Lov om skadeserstatning (skadeserstatningsloven)")
    @@ ("LOV-2016-06-17-73" :> "Lov om offentlige anskaffelser (anskaffelsesloven)")

(***************************************************************************)
(* The store of the query model.                                           *)
(***************************************************************************)
\* Rows of documents.  _parse_xml takes dok_id and ref_id from the header's
\* dokid and refid; is_current is the INTEGER column, 1 or 0.
Avhendingslova(is_current) ==
    [dok_id |-> "NL/lov/1992-07-03-93", ref_id |-> "lov/1992-07-03-93",
     short_title |-> "Avhendingslova", doc_type |-> "lov",
     is_current |-> is_current]
Husleieloven ==
    [dok_id |-> "lov/1999-03-26-17", ref_id |-> "lov/1999-03-26-17",
     short_title |-> "Husleieloven", doc_type |-> "lov", is_current |-> 1]
\* the repealed act of the same short title
Husleieloven1939 ==
    [dok_id |-> "lov/1939-06-16-6", ref_id |-> "lov/1939-06-16-6",
     short_title |-> "Husleieloven", doc_type |-> "lov", is_current |-> 0]
Byggteknisk ==
    [dok_id |-> "NL/forskrift/2017-06-19-840", ref_id |-> "forskrift/2017-06-19-840",
     short_title |-> "Byggteknisk forskrift", doc_type |-> "forskrift",
     is_current |-> 1]

\* Rows of sections of each document: section_id -> title and content, as
\* _parse_sections leaves them (no title element: None; paragraph elements
\* without text: the empty content).
SectionsOf(dok_id) ==
    CASE dok_id = "NL/lov/1992-07-03-93" ->
            ("3-9" :> [title |-> Some("Manglar"),
                       content |-> "Eigedomen har mangel dersom ho ikkje er i samsvar med avtala."])
         @@ ("3-10" :> [title |-> None, content |-> ""])
      [] dok_id = "lov/1999-03-26-17" ->
            ("9-2" :> [title |-> Some("Oppsigelse"), content |-> "Leieavtalen kan sies opp."])
         @@ ("9-7" :> [title |-> None, content |-> "Leieren kan si opp avtalen."])
      [] dok_id = "lov/1939-06-16-6" ->
            ("1" :> [title |-> None, content |-> "Opphevet tekst."])
      [] OTHER ->
            ("1-1" :> [title |-> Some("Formål"), content |-> "Forskriften skal sikre kvalitet."])

\* The table sections of a store holding the documents docs.
SectionsTable(docs) ==
    LET keys == UNION { {<< d.dok_id, s >> : s \in DOMAIN SectionsOf(d.dok_id)} : d \in docs }
    IN  [k \in keys |-> SectionsOf(k[1])[k[2]]]

DocumentTables ==
    { a \cup b \cup c \cup d :
        a \in {{}, {Avhendingslova(1)}, {Avhendingslova(0)}},
        b \in {{}, {Husleieloven}},
        c \in {{}, {Husleieloven1939}},
        d \in {{}, {Byggteknisk}} }

\* trigram: hasattr(backend, "find_similar_law")
Stores ==
    { [documents |-> docs, sections |-> SectionsTable(docs), trigram |-> t] :
        docs \in DocumentTables, t \in BOOLEAN }

EmptyStore == [documents |-> {}, sections |-> EmptyFn, trigram |-> FALSE]

(***************************************************************************)
(* The backend's readers on a store.  Each yields the set of values the    *)
(* call can return: fetchone() of a SELECT without ORDER BY returns any    *)
(* matching row, and ORDER BY is_current DESC LIMIT 1 any matching row of  *)
(* the greatest is_current.                                                *)
(***************************************************************************)
\* _normalize_id
_normalize_id(id_str) ==
    LET id_upper == str_upper(id_str)
    IN  IF StartsWith(id_upper, "LOV-") THEN "lov/" \o str_lower(str_from(id_str, 4))
        ELSE IF StartsWith(id_upper, "FOR-") THEN "forskrift/" \o str_lower(str_from(id_str, 4))
        ELSE IF StartsWith(id_upper, "NL/") THEN str_from(id_str, 3)
        ELSE str_lower(id_str)

\* cursor.fetchone()
FetchOne(rows) == IF rows = {} THEN {None} ELSE {Some(r) : r \in rows}

\* ... ORDER BY is_current DESC LIMIT 1
CurrentFirst(rows) == {r \in rows : \A o \in rows : o.is_current <= r.is_current}

\* _find_document_row: the rows it can return, none when it returns None
_find_document_row(docs, identifier) ==
    LET normalized == _normalize_id(identifier)
        exact == {d \in docs : d.dok_id = normalized \/ d.ref_id = normalized}
        title == {d \in docs : sql_lower(d.short_title) = sql_lower(identifier)}
        starts == {d \in docs : Like(d.short_title, identifier \o "%")}
        contains == {d \in docs : Like(d.short_title, "%" \o identifier \o "%")}
        by_id == {d \in docs : Like(d.dok_id, "%" \o normalized \o "%")}
    IN  IF exact # {} THEN CurrentFirst(exact)
        ELSE IF title # {} THEN CurrentFirst(title)
        ELSE IF starts # {} THEN CurrentFirst(starts)
        ELSE IF contains # {} THEN CurrentFirst(contains)
        ELSE CurrentFirst(by_id)

\* _find_document
_find_document(st, identifier) == FetchOne(_find_document_row(st.documents, identifier))

\* The trigrams of a text: lower case, two blanks before and one after.
Trigrams(text) ==
    LET padded == "  " \o str_lower(text) \o " "
    IN  {SubSeq(padded, i, i + 2) : i \in 1..(Len(padded) - 2)}

\* The trigram similarity of two texts as the fraction << shared, all >>.
Similarity(a, b) ==
    << Cardinality(Trigrams(a) \cap Trigrams(b)),
       Cardinality(Trigrams(a) \cup Trigrams(b)) >>

\* fraction x >= fraction y
FracGeq(x, y) == x[1] * y[2] >= y[1] * x[2]

\* find_similar_law(name, threshold) of a backend that offers it: the
\* document whose short_title is most similar to name, when that similarity
\* reaches the threshold num/den.
find_similar_law(st, name, num, den) ==
    LET near == {d \in st.documents :
                    FracGeq(Similarity(d.short_title, name), << num, den >>)}
        best == {d \in near : \A o \in near :
                    FracGeq(Similarity(d.short_title, name),
                            Similarity(o.short_title, name))}
    IN  FetchOne(best)

(***************************************************************************)
(* The resolver.                                                           *)
(***************************************************************************)
MIN_FUZZY_LENGTH == 8

\* alias.startswith(("lov", "LOV", "for", "FOR"))
StartsWithLovFor(alias) ==
    \E p \in {"lov", "LOV", "for", "FOR"} : StartsWith(alias, p)

\* An outcome of _resolve_id: the id it returns and the lookups it made, in
\* order.
Resolved(id, calls) == [id |-> id, calls |-> calls]

\* The last statement of _resolve_id.
AsIs(alias, calls) ==
    Resolved(IF StartsWithLovFor(alias) THEN str_upper(alias) ELSE alias, calls)

\* The fuzzy tier without the floor on the input's length.
FuzzyAnyLength(st, alias, fails, calls) ==
    IF st.trigram
    THEN LET similar == IF "find_similar_law" \in fails THEN {None}
                        ELSE find_similar_law(st, alias, 4, 10)
             after == Append(calls, "find_similar_law")
         IN  { IF s # None THEN Resolved(s[1].dok_id, after) ELSE AsIs(alias, after)
               : s \in similar }
    ELSE { AsIs(alias, calls) }

\* The fuzzy tier of _resolve_id and what follows it; calls are the lookups
\* made before it.
Fuzzy(st, alias, fails, calls) ==
    IF Len(alias) >= MIN_FUZZY_LENGTH /\ st.trigram
    THEN LET similar == IF "find_similar_law" \in fails THEN {None}
                        ELSE find_similar_law(st, alias, 4, 10)
             after == Append(calls, "find_similar_law")
         IN  { IF s # None THEN Resolved(s[1].dok_id, after) ELSE AsIs(alias, after)
               : s \in similar }
    ELSE { AsIs(alias, calls) }

\* _resolve_id(alias) on store st: the outcomes it can have.  fails are the
\* backend calls that raise during this invocation.
_resolve_id(st, alias, fails) ==
    IF alias = "" \/ str_strip(alias) = "" THEN { Resolved("", << >>) }
    ELSE
    LET normalized == str_replace(str_replace(str_lower(alias), " ", "-"), "_", "-")
    IN  IF normalized \in DOMAIN LOV_ALIASES
        THEN { Resolved(LOV_ALIASES[normalized], << "LOV_ALIASES" >>) }
        ELSE
        LET docs == IF "_find_document" \in fails THEN {None}
                    ELSE _find_document(st, alias)
            after == << "LOV_ALIASES", "_find_document" >>
        IN  UNION { IF doc # None /\ doc[1].dok_id # ""
                    THEN { Resolved(doc[1].dok_id, after) }
                    ELSE Fuzzy(st, alias, fails, after)
                    : doc \in docs }

(***************************************************************************)
(* Calls of the query engine.  A query runs to its end on the store as it  *)
(* is; q records the call and its outcome until the caller has it.         *)
(***************************************************************************)
NoQuery == [op |-> "none"]

\* The identifiers callers resolve.
Aliases ==
    {"avhl", "AVHL", "Avhendingslova", "plan og bygningsloven",
     "plan_og_bygningsloven", "husleieloven", "Husleielova", "husleie",
     "husleia", "teknisk", "lov/1992-07-03-93", "LOV-1992-07-03-93",
     "NL/lov/1992-07-03-93", "lov/2099-01-01-1", "Lov-2099-01-01-1",
     "forurensningsloven", "xyz"}

\* _resolve_id(alias)
call_resolve_id(alias, fails) ==
    /\ q = NoQuery
    /\ \E out \in _resolve_id(store, alias, fails) :
          q' = [op |-> "_resolve_id", alias |-> alias, fails |-> fails,
                out |-> out, prev |-> None]
    /\ UNCHANGED << syncVars, reader, retryVars, store, embeddings >>

\* _resolve_id applied to the id a call of _resolve_id has just returned
call_resolve_id_again ==
    /\ q.op = "_resolve_id"
    /\ q.prev = None
    /\ q.fails = {}
    /\ \E out \in _resolve_id(store, q.out.id, {}) :
          q' = [op |-> "_resolve_id", alias |-> q.out.id, fails |-> {},
                out |-> out, prev |-> Some(q.alias)]
    /\ UNCHANGED << syncVars, reader, retryVars, store, embeddings >>

\* the caller takes the outcome
query_returns ==
    /\ q # NoQuery
    /\ q' = NoQuery
    /\ UNCHANGED << syncVars, reader, retryVars, store, embeddings >>

ResolveNext ==
    \/ \E alias \in Aliases, fails \in SUBSET {"_find_document", "find_similar_law"} :
          call_resolve_id(alias, fails)
    \/ call_resolve_id_again
    \/ query_returns

QueryIdle ==
    /\ store = EmptyStore
    /\ embeddings = {}
    /\ q = NoQuery

(***************************************************************************)
(* The backend's readers of documents and sections.                        *)
(***************************************************************************)
\* A Python int and a Python bool: `x is False` holds of the bool False
\* only, `not x` of None, 0 and False.
PyInt(n) == [int |-> n]
PyBool(b) == [bool |-> b]
IsFalse(x) == x = PyBool(FALSE)
Not(x) == x = None \/ x = PyInt(0) \/ x = PyBool(FALSE)

\* dict(row) of a row of documents
RowDict(d) ==
    [dok_id |-> d.dok_id, ref_id |-> d.ref_id, short_title |-> d.short_title,
     doc_type |-> d.doc_type, is_current |-> PyInt(d.is_current)]

\* get_document(dok_id) on store st
get_document_of(st, dok_id) ==
    LET normalized == _normalize_id(dok_id)
        rows == {d \in st.documents : d.dok_id = normalized \/ d.ref_id = normalized}
    IN  IF rows = {} THEN {None} ELSE {Some(RowDict(d)) : d \in rows}

\* The document rows that the first SELECT of get_section, list_sections
\* and get_sections_batch can return.
select_document(st, dok_id) ==
    LET normalized == _normalize_id(dok_id)
    IN  {d \in st.documents :
            \/ d.dok_id = normalized
            \/ d.ref_id = normalized
            \/ d.short_title = str_lower(dok_id)}

\* ... and, for get_section and list_sections, the rows _find_document_row
\* can return when that SELECT finds none.
find_document_for(st, dok_id) ==
    IF select_document(st, dok_id) # {} THEN select_document(st, dok_id)
    ELSE _find_document_row(st.documents, dok_id)

\* section_id.replace("§", "").strip()
clean_section_id(section_id) == str_strip(str_replace(section_id, "§", ""))

\* LawSection of a row of sections
LawSection(st, dok_id, section_id) ==
    [dok_id |-> dok_id, section_id |-> section_id,
     title |-> st.sections[<< dok_id, section_id >>].title,
     content |-> st.sections[<< dok_id, section_id >>].content]

\* get_section(dok_id, section_id) on store st
get_section_of(st, dok_id, section_id) ==
    LET docs == find_document_for(st, dok_id)
        sid == clean_section_id(section_id)
    IN  IF docs = {} THEN {None}
        ELSE { IF << d.dok_id, sid >> \in DOMAIN st.sections
               THEN Some(LawSection(st, d.dok_id, sid))
               ELSE None : d \in docs }

(***************************************************************************)
(* Natural order of section ids (the sort key of list_sections).           *)
(***************************************************************************)
Digits == "0123456789"
DigitValue == CharMap(Digits, Digits)
IsDigit(c) == c \in DOMAIN DigitValue

\* the characters of the model in code point order (a TLA+ string cannot
\* hold a backquote: the backquotes of the messages are written as apostrophes)
CodePoints ==
    "\t\n !\"#$%&'()*+,-./" \o Digits \o ":;<=>?@" \o ASCII_UPPER \o "[]^_"
    \o ASCII_LOWER \o "{|}~§«»ÅÆØåæø"

\* the rank of each character in that order
CodePointOf == [c \in CharsOf(CodePoints) |-> IndexIn(c, CodePoints)]

\* Python's a < b on str
RECURSIVE StrLess(_, _)
StrLess(a, b) ==
    IF b = "" THEN FALSE
    ELSE IF a = "" THEN TRUE
    ELSE IF Head(a) = Head(b) THEN StrLess(Tail(a), Tail(b))
    ELSE CodePointOf[Head(a)] < CodePointOf[Head(b)]

\* s.split(sep) for a one-character sep
RECURSIVE str_split(_, _)
str_split(s, sep) ==
    IF \E i \in 1..Len(s) : Char(s, i) = sep
    THEN LET i == CHOOSE k \in 1..Len(s) :
                    Char(s, k) = sep /\ \A j \in 1..(k - 1) : Char(s, j) # sep
         IN  << str_upto(s, i - 1) >> \o str_split(str_from(s, i), sep)
    ELSE << s >>

\* int(digits)
RECURSIVE ParseInt(_)
ParseInt(digits) ==
    IF digits = "" THEN 0
    ELSE 10 * ParseInt(SubSeq(digits, 1, Len(digits) - 1))
         + (IndexIn(Char(digits, Len(digits)), Digits) - 1)

\* the longest prefix of digits
RECURSIVE DigitPrefix(_)
DigitPrefix(s) ==
    IF s # "" /\ IsDigit(Head(s)) THEN Head(s) \o DigitPrefix(Tail(s)) ELSE ""

\* One element of sort_key: re.match(r"^(\d+)\s*([a-z]?)$", p.strip(), re.I)
\* gives (int, letter), anything else (inf, p.lower()).
PartKey(p) ==
    LET t == str_strip(p)
        num == DigitPrefix(t)
        rest == str_lstrip(str_from(t, Len(num)))
    IN  IF num # "" /\ (rest = "" \/ (Len(rest) = 1 /\ str_lower(rest) \in CharsOf(ASCII_LOWER)))
        THEN [inf |-> FALSE, n |-> ParseInt(num), s |-> str_lower(rest)]
        ELSE [inf |-> TRUE, n |-> 0, s |-> str_lower(p)]

\* sort_key of list_sections
sort_key(section_id) ==
    LET parts == str_split(str_replace(section_id, "-", "."), ".")
    IN  [i \in 1..Len(parts) |-> PartKey(parts[i])]

\* Python's a < b on the tuples of a sort key
PartLess(a, b) ==
    \/ ~a.inf /\ b.inf
    \/ a.inf = b.inf /\ a.n < b.n
    \/ a.inf = b.inf /\ a.n = b.n /\ StrLess(a.s, b.s)

\* Python's a < b on sort keys
RECURSIVE KeyLess(_, _)
KeyLess(a, b) ==
    IF b = << >> THEN FALSE
    ELSE IF a = << >> THEN TRUE
    ELSE IF Head(a) = Head(b) THEN KeyLess(Tail(a), Tail(b))
    ELSE PartLess(Head(a), Head(b))

\* int(char_count / 3.5)
estimated_tokens(char_count) == (2 * char_count) \div 7

\* The orders in which fetchall can return the rows S of a SELECT without
\* ORDER BY.
RowOrders(S) ==
    { rows \in [1..Cardinality(S) -> S] :
        \A i, j \in 1..Cardinality(S) : i # j => rows[i] # rows[j] }

\* sections.sort(key=sort_key) leaves the list in the order of the keys; the
\* sort is stable, so rows of equal keys stay in the order they were read in.
SortedByKey(rows) ==
    \A i, j \in 1..Len(rows) :
        i < j => ~KeyLess(sort_key(rows[j].section_id), sort_key(rows[i].section_id))

\* list_sections(dok_id) on store st: the lists it can return, the summaries
\* in natural order
list_sections_of(st, dok_id) ==
    LET docs == find_document_for(st, dok_id)
    IN  IF docs = {} THEN { << >> }
        ELSE UNION {
               { rows \in RowOrders(
                     { [section_id |-> k[2], title |-> st.sections[k].title,
                        estimated_tokens |-> estimated_tokens(Len(st.sections[k].content))]
                       : k \in {j \in DOMAIN st.sections : j[1] = d.dok_id} }) :
                   SortedByKey(rows) }
               : d \in docs }

(***************************************************************************)
(* lookup_law and lookup_regulation.                                       *)
(***************************************************************************)
_SECTION_NOT_FOUND == "__SECTION_NOT_FOUND__"

\* An outcome of a public operation: the text it returns, or the backend
\* call whose exception leaves the operation.
Returned(text) == [raised |-> FALSE, text |-> text]
Raises(call) == [raised |-> TRUE, call |-> call]

\* str(n) for n >= 0
RECURSIVE IntStr(_)
IntStr(n) ==
    IF n < 10 THEN Char(Digits, n + 1)
    ELSE IntStr(n \div 10) \o Char(Digits, (n % 10) + 1)

\* sep.join(lines)
RECURSIVE Join(_, _)
Join(lines, sep) ==
    IF lines = << >> THEN ""
    ELSE IF Len(lines) = 1 THEN lines[1]
    ELSE lines[1] \o sep \o Join(Tail(lines), sep)

\* _get_law_name
_get_law_name(lov_id) == IF lov_id \in DOMAIN LOV_NAMES THEN LOV_NAMES[lov_id] ELSE lov_id

\* paragraf.lstrip("§")
RECURSIVE lstrip_mark(_)
lstrip_mark(p) == IF p # "" /\ Head(p) = "§" THEN lstrip_mark(Tail(p)) ELSE p

\* _format_lovdata_url; paragraf is None or Some(text)
_format_lovdata_url(lov_id, paragraf) ==
    LET path == IF StartsWith(lov_id, "LOV-") THEN "lov/" \o str_lower(str_from(lov_id, 4))
                ELSE IF StartsWith(lov_id, "FOR-")
                THEN "forskrift/" \o str_lower(str_from(lov_id, 4))
                ELSE str_lower(lov_id)
        url == "https://lovdata.no/" \o path
    IN  IF paragraf # None /\ paragraf[1] # ""
        THEN url \o "/§" \o str_strip(lstrip_mark(paragraf[1]))
        ELSE url

\* int(max_tokens * CHARS_PER_TOKEN), CHARS_PER_TOKEN = 3.5
max_chars(max_tokens) == (7 * max_tokens) \div 2

\* The truncation of _fetch_law_content; max_tokens is None or Some(n).
Truncated(content, max_tokens) ==
    IF max_tokens # None /\ max_tokens[1] # 0 /\ Len(content) > max_chars(max_tokens[1])
    THEN str_upto(content, max_chars(max_tokens[1])) \o "\n\n... [avkortet]"
    ELSE content

\* The content _fetch_law_content builds of a section.
SectionContent(section) ==
    (IF section.title # None /\ section.title[1] # ""
     THEN "**" \o section.title[1] \o "**\n\n" ELSE "")
    \o section.content

\* Whether r"\s+nr\s+\d+" (re.IGNORECASE) matches s from position i on.
NrAt(s, i) ==
    \E j \in (i + 1)..Len(s), k \in (i + 4)..Len(s) :
        /\ \A n \in i..(j - 1) : Char(s, n) \in Whitespace
        /\ j + 1 <= Len(s)
        /\ str_lower(SubSeq(s, j, j + 1)) = "nr"
        /\ k >= j + 3
        /\ \A n \in (j + 2)..(k - 1) : Char(s, n) \in Whitespace
        /\ IsDigit(Char(s, k))

\* re.sub(r"\s+nr\s+\d+.*$", "", paragraf, flags=re.IGNORECASE) for a
\* paragraf of one line
StripNr(paragraf) ==
    IF \E i \in 1..Len(paragraf) : NrAt(paragraf, i)
    THEN LET i == CHOOSE k \in 1..Len(paragraf) :
                    NrAt(paragraf, k) /\ \A j \in 1..(k - 1) : ~NrAt(paragraf, j)
         IN  str_upto(paragraf, i - 1)
    ELSE paragraf

\* The note _fetch_law_content appends when it shows the section without
\* its nr clause.
Annotation(paragraf, stripped) ==
    "\n\n> *Merk: § " \o paragraf \o " ble ikke funnet som egen seksjon. "
    \o "Viser hele § " \o stripped \o " som inneholder denne bestemmelsen.*"

BANNER ==
    "> **Denne loven/forskriften er opphevet.** "
    \o "Resultatene kan vaere utdaterte. Bruk 'sok()' for a finne gjeldende regelverk."

\* _format_flat_toc (titles of the model are short and hold no "|")
_format_flat_toc(secs) ==
    << "| Paragraf | Tittel | Tokens |", "|----------|--------|-------:|" >>
    \o [i \in 1..Len(secs) |->
          "| § " \o secs[i].section_id \o " | "
          \o (IF secs[i].title # None THEN secs[i].title[1] ELSE "")
          \o " | " \o IntStr(secs[i].estimated_tokens) \o " |"]

\* sum(s.get("estimated_tokens", 0) for s in secs)
RECURSIVE total_tokens(_)
total_tokens(secs) ==
    IF secs = << >> THEN 0
    ELSE Head(secs).estimated_tokens + total_tokens(Tail(secs))

\* _format_table_of_contents without structures and without the metadata
\* block (the rows of the model have no title, ministry, legal_area,
\* based_on or is_amendment: the heading takes the short_title).
_format_table_of_contents(doc, secs) ==
    LET is_current == doc.is_current
        title == IF Not(is_current) THEN doc.short_title \o " (opphevet)"
                 ELSE doc.short_title
    IN  Join(<< "### Innholdsfortegnelse: " \o title, "" >>
             \o (IF Not(is_current) THEN << BANNER, "" >> ELSE << >>)
             \o << "**Totalt:** " \o IntStr(Len(secs)) \o " paragrafer (~"
                   \o IntStr(total_tokens(secs)) \o " tokens)", "" >>
             \o _format_flat_toc(secs)
             \o << "", "---", "", "**Bruk:**",
                   "- Hent én paragraf: 'lov('" \o doc.dok_id \o "', '1')' eller 'forskrift(...)'",
                   "- Begrens respons: 'lov(..., max_tokens=2000)'", "",
                   "*Tips: Hent spesifikke paragrafer for å spare tokens.*" >>,
             "\n")

\* _format_response; is_current is None, a PyInt or a PyBool
_format_response(law_name, law_id, paragraf, content, url, is_current) ==
    LET section_header == IF paragraf # None /\ paragraf[1] # ""
                          THEN "§ " \o paragraf[1] ELSE "(hele loven)"
        header == IF IsFalse(is_current) THEN law_name \o " (opphevet)" ELSE law_name
        warning == IF IsFalse(is_current) THEN "\n" \o BANNER \o "\n" ELSE ""
    IN  "## " \o header \o "\n\n**Paragraf:** " \o section_header
        \o "\n**Lovdata ID:** " \o law_id \o "\n" \o warning \o "\n---\n\n"
        \o content \o "\n\n---\n\n**Kilde:** [" \o url \o "](" \o url \o ")\n"
        \o "**Lisens:** NLOD 2.0 - Norsk lisens for offentlige data\n"

\* The last statements of the section branch of _fetch_law_content: does
\* the document exist at all?
DocumentCheck(st, lov_id, fails) ==
    IF "get_document" \in fails THEN {None}
    ELSE { IF doc # None THEN Some(_SECTION_NOT_FOUND) ELSE None
           : doc \in get_document_of(st, lov_id) }

\* The retry of _fetch_law_content without the nr clause.
NrRetry(st, lov_id, paragraf, max_tokens, fails) ==
    LET stripped == StripNr(paragraf)
    IN  IF stripped # paragraf
        THEN UNION { IF section # None
                     THEN { Some(Truncated(SectionContent(section[1])
                                           \o Annotation(paragraf, stripped),
                                           max_tokens)) }
                     ELSE DocumentCheck(st, lov_id, fails)
                     : section \in get_section_of(st, lov_id, stripped) }
        ELSE DocumentCheck(st, lov_id, fails)

\* _fetch_law_content on store st: the values it can return, None or
\* Some(text).  An exception of a backend call is caught and gives None.
_fetch_law_content(st, lov_id, paragraf, max_tokens, fails) ==
    IF paragraf # None /\ paragraf[1] # ""
    THEN IF "get_section" \in fails THEN {None}
         ELSE UNION { IF section # None
                      THEN { Some(Truncated(SectionContent(section[1]), max_tokens)) }
                      ELSE NrRetry(st, lov_id, paragraf[1], max_tokens, fails)
                      : section \in get_section_of(st, lov_id, paragraf[1]) }
    ELSE IF "get_document" \in fails THEN {None}
    ELSE UNION { IF doc = None THEN {None}
                 ELSE IF "list_sections" \in fails THEN {None}
                 ELSE { IF secs # << >>
                        THEN Some(_format_table_of_contents(doc[1], secs))
                        ELSE Some("*Dokument funnet, men ingen paragrafer i cache.*")
                        : secs \in list_sections_of(st, lov_id) }
                 : doc \in get_document_of(st, lov_id) }

\* str(paragraf) in an f-string
Shown(paragraf) == IF paragraf = None THEN "None" ELSE paragraf[1]

\* The statements lookup_law and lookup_regulation share, from the
\* resolution on; kind is "lov" or "forskrift".
Lookup(st, kind, id, paragraf, max_tokens, fails) ==
    UNION {
      LET resolved_id == r.id
          law_name == _get_law_name(resolved_id)
          url == _format_lovdata_url(resolved_id, paragraf)
      IN  IF "get_document" \in fails THEN { Raises("get_document") }
          ELSE UNION {
            LET is_current == IF doc_meta # None THEN doc_meta[1].is_current ELSE None
            IN  { IF content = Some(_SECTION_NOT_FOUND)
                  THEN Returned("**Feil:** § " \o Shown(paragraf) \o " finnes ikke i "
                                \o law_name \o ".\n\nBruk '" \o kind \o "(\"" \o id
                                \o "\")' for å se innholdsfortegnelsen, eller 'sok(\""
                                \o Shown(paragraf) \o "\")' for å søke.")
                  ELSE IF content # None /\ content[1] # ""
                  THEN Returned(_format_response(law_name, resolved_id, paragraf,
                                                 content[1], url, is_current))
                  ELSE Returned("**Feil:** Fant ikke "
                                \o (IF kind = "lov" THEN "loven" ELSE "forskriften")
                                \o " «" \o id \o "».\n\n**Tips:** Bruk 'sok(\"" \o id
                                \o "\")' for å søke, "
                                \o (IF kind = "lov"
                                    THEN "eller 'liste()' for å se kjente aliaser.\n\n"
                                         \o "Du kan også bruke full Lovdata-ID fra "
                                         \o "søkeresultater, "
                                         \o "f.eks. 'lov(\"lov/1999-03-26-17\", \"9-2\")'."
                                    ELSE "eller prøv fullt navn/ID."))
                  : content \in _fetch_law_content(st, resolved_id, paragraf,
                                                   max_tokens, fails) }
            : doc_meta \in get_document_of(st, resolved_id) }
      : r \in _resolve_id(st, id, fails) }

\* lookup_law(lov_id, paragraf, max_tokens) on store st
lookup_law(st, lov_id, paragraf, max_tokens, fails) ==
    IF lov_id = "" \/ str_strip(lov_id) = ""
    THEN { Returned("**Feil:** Lov-ID kan ikke være tom. Oppgi lovnavn eller ID.") }
    ELSE Lookup(st, "lov", lov_id, paragraf, max_tokens, fails)

\* lookup_regulation(forskrift_id, paragraf, max_tokens) on store st
lookup_regulation(st, forskrift_id, paragraf, max_tokens, fails) ==
    Lookup(st, "forskrift", forskrift_id, paragraf, max_tokens, fails)

(***************************************************************************)
(* Calls of lookup_law, lookup_regulation and get_document.                *)
(***************************************************************************)
\* the backend in src/: it has no find_similar_law
SqliteStores == {st \in Stores : ~st.trigram}

LookupIds ==
    {"avhl", "husleieloven", "tek17", "lov/1939-06-16-6", "husleie", "kjøpsloven", "xyz"}

Paragrafs ==
    {None, Some("3-9"), Some("§ 3-9"), Some("3-10"), Some("9-7 nr 2"),
     Some("9-9 nr 1"), Some("99-99"), Some("1")}

TokenLimits == {None, Some(5), Some(100)}

\* lookup_law(lov_id, paragraf, max_tokens)
call_lookup_law(lov_id, paragraf, max_tokens, fails) ==
    /\ q = NoQuery
    /\ \E out \in lookup_law(store, lov_id, paragraf, max_tokens, fails) :
          q' = [op |-> "lookup_law", id |-> lov_id, paragraf |-> paragraf,
                max_tokens |-> max_tokens, fails |-> fails, out |-> out]
    /\ UNCHANGED << syncVars, reader, retryVars, store, embeddings >>

\* lookup_regulation(forskrift_id, paragraf, max_tokens)
call_lookup_regulation(forskrift_id, paragraf, max_tokens, fails) ==
    /\ q = NoQuery
    /\ \E out \in lookup_regulation(store, forskrift_id, paragraf, max_tokens, fails) :
          q' = [op |-> "lookup_regulation", id |-> forskrift_id, paragraf |-> paragraf,
                max_tokens |-> max_tokens, fails |-> fails, out |-> out]
    /\ UNCHANGED << syncVars, reader, retryVars, store, embeddings >>

\* The ids get_document is called with: ids, ref_ids and short titles in
\* several spellings.
DocumentIds ==
    {"NL/lov/1992-07-03-93", "lov/1992-07-03-93", "LOV-1992-07-03-93",
     "Avhendingslova", "lov/1999-03-26-17", "Husleieloven", "husleieloven",
     "HUSLEIELOVEN", "forskrift/2017-06-19-840", "FOR-2017-06-19-840",
     "Byggteknisk forskrift", "lov/2099-01-01-1"}

\* backend.get_document(dok_id)
call_get_document(dok_id) ==
    /\ q = NoQuery
    /\ \E out \in get_document_of(store, dok_id) :
          q' = [op |-> "get_document", id |-> dok_id, out |-> out]
    /\ UNCHANGED << syncVars, reader, retryVars, store, embeddings >>

LookupNext ==
    \/ \E lov_id \in LookupIds, paragraf \in Paragrafs, max_tokens \in TokenLimits :
          call_lookup_law(lov_id, paragraf, max_tokens, {})
    \/ \E forskrift_id \in LookupIds, paragraf \in Paragrafs, max_tokens \in TokenLimits :
          call_lookup_regulation(forskrift_id, paragraf, max_tokens, {})
    \/ \E dok_id \in DocumentIds : call_get_document(dok_id)
    \/ query_returns

\* The queries run on the SQLite backend.
LookupInit ==
    /\ SyncInit
    /\ RetryIdle
    /\ store \in SqliteStores
    /\ embeddings = {}
    /\ q = NoQuery

(***************************************************************************)
(* lookup_sections_batch.                                                  *)
(***************************************************************************)
\* get_sections_batch(dok_id, section_ids) on store st: the lists it can
\* return, the sections found in the order they were asked for.
get_sections_batch_of(st, dok_id, section_ids) ==
    LET docs == select_document(st, dok_id)
        clean_ids == [i \in 1..Len(section_ids) |-> clean_section_id(section_ids[i])]
    IN  IF docs = {} THEN { << >> }
        ELSE { LET found == SelectSeq(clean_ids,
                              LAMBDA sid : << d.dok_id, sid >> \in DOMAIN st.sections)
               IN  [i \in 1..Len(found) |-> LawSection(st, d.dok_id, found[i])]
               : d \in docs }

\* estimate_tokens
estimate_tokens(text) == (2 * Len(text)) \div 7

\* sorted(S) of a set of str
RECURSIVE sorted(_)
sorted(S) ==
    IF S = {} THEN << >>
    ELSE LET least == CHOOSE x \in S : \A y \in S \ {x} : StrLess(x, y)
         IN  << least >> \o sorted(S \ {least})

\* What an operation that records its backend calls returns.
ReturnedAfter(text, calls) == [raised |-> FALSE, text |-> text, calls |-> calls]
RaisesAfter(call, calls) == [raised |-> TRUE, call |-> call, calls |-> calls]

\* _format_fallback_response after the backend calls made so far: its call
\* of get_sync_status is outside any try.
_format_fallback_response(st, law_name, law_id, paragraf, url, fails, calls) ==
    LET section_header == IF paragraf # None /\ paragraf[1] # ""
                          THEN "§ " \o paragraf[1] ELSE "(hele loven)"
        tip_msg == IF st.sync_meta # {}
                   THEN "*Lovdata er synkronisert, men denne loven ble ikke funnet i cache.*"
                   ELSE "*Tips: Kjør 'python -m services.lovdata_sync' for å laste ned lovdata.*"
    IN  IF "get_sync_status" \in fails
        THEN RaisesAfter("get_sync_status", calls \o << "get_sync_status" >>)
        ELSE ReturnedAfter(
               "## " \o law_name \o "\n\n**Paragraf:** " \o section_header
               \o "\n**Lovdata ID:** " \o law_id
               \o "\n\n---\n\nLovteksten er ikke tilgjengelig i lokal cache.\n\n"
               \o "**Se fullstendig tekst på Lovdata:**\n[" \o url \o "](" \o url
               \o ")\n\n---\n\n" \o tip_msg
               \o "\n**Lisens:** NLOD 2.0 - Norsk lisens for offentlige data\n",
               calls \o << "get_sync_status" >>)

\* The text of one section in a batch response.
BatchSection(section, max_tokens) ==
    (IF section.title # None /\ section.title[1] # ""
     THEN "### § " \o section.section_id \o ": " \o section.title[1] \o "\n\n"
     ELSE "### § " \o section.section_id \o "\n\n")
    \o Truncated(section.content, max_tokens)

\* sum of estimate_tokens over the section texts
RECURSIVE batch_tokens(_)
batch_tokens(parts) ==
    IF parts = << >> THEN 0
    ELSE estimate_tokens(Head(parts)) + batch_tokens(Tail(parts))

\* The response of lookup_sections_batch for the sections found (token
\* totals of the model stay below 1000, where "{:,}" adds no separator).
BatchResponse(law_name, resolved_id, url, section_ids, secs, max_tokens) ==
    LET found_ids == {secs[i].section_id : i \in 1..Len(secs)}
        requested_ids == {section_ids[i] : i \in 1..Len(section_ids)}
        not_found == requested_ids \ found_ids
        content_parts == [i \in 1..Len(secs) |-> BatchSection(secs[i], max_tokens)]
        not_found_warning == IF not_found # {}
                             THEN "\n\n> **Ikke funnet:** " \o Join(sorted(not_found), ", ")
                             ELSE ""
    IN  "## " \o law_name \o "\n\n**Paragrafer:** "
        \o Join([i \in 1..Len(secs) |-> "§ " \o secs[i].section_id], ", ")
        \o "\n**Lovdata ID:** " \o resolved_id
        \o "\n**Totalt:** ~" \o IntStr(batch_tokens(content_parts)) \o " tokens"
        \o not_found_warning \o "\n\n---\n\n"
        \o Join(content_parts, "\n\n---\n\n")
        \o "\n\n---\n\n**Kilde:** [" \o url \o "](" \o url \o ")\n"
        \o "**Lisens:** NLOD 2.0 - Norsk lisens for offentlige data\n"

MAX_BATCH_SIZE == 50

\* A comparison that also turns away a batch of exactly MAX_BATCH_SIZE.
TooManyAtLimit(section_ids) == Len(section_ids) >= MAX_BATCH_SIZE

\* The comparison of the batch size with MAX_BATCH_SIZE.
TooMany(section_ids) == Len(section_ids) > MAX_BATCH_SIZE

\* lookup_sections_batch(lov_id, section_ids, max_tokens) on store st
lookup_sections_batch(st, lov_id, section_ids, max_tokens, fails) ==
    IF lov_id = "" \/ str_strip(lov_id) = ""
    THEN { ReturnedAfter("**Feil:** Lov-ID kan ikke være tom.", << >>) }
    ELSE IF section_ids = << >>
    THEN { ReturnedAfter("**Feil:** Paragraf-listen kan ikke være tom. "
                         \o "Oppgi minst én paragraf.", << >>) }
    ELSE IF TooMany(section_ids)
    THEN { ReturnedAfter("**Feil:** For mange paragrafer ("
                         \o IntStr(Len(section_ids)) \o "). Maks "
                         \o IntStr(MAX_BATCH_SIZE) \o " per batch for å unngå "
                         \o "for store responser. Del opp i flere kall.", << >>) }
    ELSE UNION {
      LET resolved_id == r.id
          law_name == _get_law_name(resolved_id)
          url == _format_lovdata_url(resolved_id, None)
          calls == r.calls \o << "get_sections_batch" >>
          fallback == _format_fallback_response(st, law_name, resolved_id,
                          Some(Join(section_ids, ", ")), url, fails, calls)
      IN  IF "get_sections_batch" \in fails THEN { fallback }
          ELSE { IF secs = << >> THEN fallback
                 ELSE ReturnedAfter(BatchResponse(law_name, resolved_id, url,
                                                  section_ids, secs, max_tokens),
                                    calls)
                 : secs \in get_sections_batch_of(st, resolved_id, section_ids) }
      : r \in _resolve_id(st, lov_id, fails) }

(***************************************************************************)
(* Calls of lookup_sections_batch.                                         *)
(***************************************************************************)
\* The SQLite store with its sync_meta table: the datasets that have a row.
SyncedStores == { st @@ [sync_meta |-> m] : st \in SqliteStores, m \in {{}, {"lover"}} }

\* section ids "1", "2", ..., as many as n
Numbered(n) == [i \in 1..n |-> IntStr(i)]

BatchIds == {"", "avhl", "husleieloven", "lov/1939-06-16-6", "xyz"}

SectionLists ==
    { << >>, << "3-9" >>, << "§ 9-2", "9-7" >>, << "9-2", "§9-7", "99-99" >>,
      << "99-99" >>, << "§ 3-9", "3-10", "1" >>,
      Numbered(MAX_BATCH_SIZE - 1), Numbered(MAX_BATCH_SIZE),
      Numbered(MAX_BATCH_SIZE + 1), Numbered(MAX_BATCH_SIZE + 2) }

\* lookup_sections_batch(lov_id, section_ids, max_tokens)
call_lookup_sections_batch(lov_id, section_ids, max_tokens, fails) ==
    /\ q = NoQuery
    /\ \E out \in lookup_sections_batch(store, lov_id, section_ids, max_tokens, fails) :
          q' = [op |-> "lookup_sections_batch", id |-> lov_id,
                section_ids |-> section_ids, max_tokens |-> max_tokens,
                fails |-> fails, out |-> out]
    /\ UNCHANGED << syncVars, reader, retryVars, store, embeddings >>

BatchNext ==
    \/ \E lov_id \in BatchIds, section_ids \in SectionLists, max_tokens \in TokenLimits :
          call_lookup_sections_batch(lov_id, section_ids, max_tokens, {})
    \/ query_returns

BatchInit ==
    /\ SyncInit
    /\ RetryIdle
    /\ store \in SyncedStores
    /\ embeddings = {}
    /\ q = NoQuery

(***************************************************************************)
(* search, get_related_regulations, list_ministries, list_legal_areas.     *)
(***************************************************************************)
\* The characters the FTS index takes as parts of a word.
TokenChars ==
    CharsOf(ASCII_UPPER \o ASCII_LOWER \o NORDIC_UPPER \o NORDIC_LOWER \o Digits)

\* A text as its runs of word characters and of other characters.
RECURSIVE Runs(_)
Runs(s) ==
    IF s = "" THEN << >>
    ELSE LET tok == Head(s) \in TokenChars
             n == CHOOSE k \in 1..Len(s) :
                     /\ \A j \in 1..k : (Char(s, j) \in TokenChars) = tok
                     /\ k = Len(s) \/ (Char(s, k + 1) \in TokenChars) # tok
         IN  << [tok |-> tok, s |-> str_upto(s, n)] >> \o Runs(str_from(s, n))

\* The words of a text as the FTS index compares them.
Terms(text) ==
    LET runs == Runs(text)
    IN  {str_lower(runs[i].s) : i \in {j \in 1..Len(runs) : runs[j].tok}}

\* The words of a row of sections_fts: dok_id, section_id, title, content.
FtsTerms(st, key) ==
    Terms(key[1]) \cup Terms(key[2])
    \cup (IF st.sections[key].title # None THEN Terms(st.sections[key].title[1]) ELSE {})
    \cup Terms(st.sections[key].content)

\* snippet(sections_fts, 3, '<mark>', '</mark>', '...', 32) of a content of
\* fewer than 32 words: the content with the words of the query marked.
snippet(content, terms) ==
    LET runs == Runs(content)
    IN  Join([i \in 1..Len(runs) |->
                IF runs[i].tok /\ str_lower(runs[i].s) \in terms
                THEN "<mark>" \o runs[i].s \o "</mark>" ELSE runs[i].s], "")

\* the orders in which the rows of a set can come back
Orders(S) ==
    {seq \in [1..Cardinality(S) -> S] : \A i, j \in 1..Cardinality(S) :
                                           seq[i] = seq[j] => i = j}

\* backend.search(query, limit) on store st, for a query of plain words (all
\* of them have to match) and without filters: the lists it can return.  The
\* rows of the model are no amendments; the order by rank is left open.
search_of(st, query, limit) ==
    LET terms == Terms(query)
        hits == {key \in DOMAIN st.sections : terms \subseteq FtsTerms(st, key)}
        row(key) == LET d == CHOOSE d \in st.documents : d.dok_id = key[1]
                    IN  [dok_id |-> d.dok_id, short_title |-> d.short_title,
                         doc_type |-> d.doc_type, section_id |-> key[2],
                         snippet |-> snippet(st.sections[key].content, terms)]
    IN  { [i \in 1..(IF Len(seq) < limit THEN Len(seq) ELSE limit) |-> row(seq[i])]
          : seq \in Orders(hits) }

\* query.replace(" ", "+")
Plus(query) == str_replace(query, " ", "+")

\* _format_fts_results for the dicts of the SQLite backend, which carry no
\* title, search_mode, based_on, legal_area or is_current
_format_fts_results(query, results) ==
    LET line(r) ==
          "### " \o (IF r.doc_type = "lov" THEN "Lov" ELSE "Forskrift") \o ": "
          \o r.short_title
          \o (IF r.section_id # "" THEN " § " \o r.section_id ELSE "")
          \o "\n**ID:** '" \o r.dok_id \o "'"
          \o (IF r.section_id # "" THEN " **Paragraf:** '" \o r.section_id \o "'" ELSE "")
          \o "\n\n"
          \o str_replace_all(str_replace_all(r.snippet, "<mark>", "**"), "</mark>", "**")
          \o "\n"
    IN  "## Søkeresultater for \"" \o query \o "\"\n\nFant " \o IntStr(Len(results))
        \o " treff (fulltekstsøk):\n\n"
        \o Join([i \in 1..Len(results) |-> line(results[i])], "\n")
        \o "\n\n---\n\n**Søk på Lovdata:** https://lovdata.no/sok?q=" \o Plus(query) \o "\n"

\* The keys of LOV_ALIASES in the order of the dict.
AliasKeys ==
    << "bustadoppføringslova", "buofl", "avhendingslova", "avhl",
       "plan-og-bygningsloven", "pbl", "byggherreforskriften",
       "byggesaksforskriften", "sak10", "byggteknisk-forskrift", "tek17",
       "husleieloven", "husll", "kjøpsloven", "forbrukerkjøpsloven", "fkjl",
       "håndverkertjenesteloven", "hvtjl", "angrerettloven",
       "arbeidsmiljøloven", "aml", "ferieloven", "folketrygdloven", "ftrl",
       "forvaltningsloven", "fvl", "offentleglova", "offl", "kommuneloven",
       "koml", "tvisteloven", "tvl", "voldgiftsloven", "domstolloven",
       "anskaffelsesloven", "loa", "anskaffelsesforskriften", "foa",
       "skadeserstatningsloven", "skl", "avtaleloven", "avtl",
       "straffeloven", "strl", "personopplysningsloven", "popplyl" >>

\* The loop of search over LOV_ALIASES for a limit of at least 1: the ids
\* of the aliases that match, each once, in the order of the dict, until
\* there are limit of them.
AliasMatches(query_lower, limit) ==
    LET id(i) == LOV_ALIASES[AliasKeys[i]]
        hit == {i \in 1..Len(AliasKeys) :
                  \/ str_contains(AliasKeys[i], query_lower)
                  \/ str_contains(str_lower(_get_law_name(id(i))), query_lower)}
        first == {i \in hit : \A j \in hit : j < i => id(j) # id(i)}
        n == IF Cardinality(first) < limit THEN Cardinality(first) ELSE limit
    IN  [k \in 1..n |->
           id(CHOOSE i \in first : Cardinality({j \in first : j < i}) = k - 1)]

\* The fallback of search: keyword matching against the known laws.
AliasSearch(query, limit) ==
    LET results == AliasMatches(str_lower(query), limit)
        line(lov_id) ==
          LET url == _format_lovdata_url(lov_id, None)
          IN  "- **" \o _get_law_name(lov_id) \o "**\n  ID: '" \o lov_id \o "'\n  ["
              \o url \o "](" \o url \o ")"
    IN  IF results = << >>
        THEN "## Søkeresultater for \"" \o query \o "\"\n\nIngen treff i indekserte lover."
             \o "\n\n**Tips:** Kjør 'service.sync()' for å laste ned lovdata, "
             \o "eller søk direkte på Lovdata:\nhttps://lovdata.no/sok?q="
             \o Plus(query) \o "\n"
        ELSE "## Søkeresultater for \"" \o query \o "\"\n\nFant "
             \o IntStr(Len(results)) \o " treff (alias-søk):\n\n"
             \o Join([i \in 1..Len(results) |-> line(results[i])], "\n")
             \o "\n\n---\n\n*For fulltekstsøk, kjør 'service.sync()' først.*\n"
             \o "**Søk på Lovdata:** https://lovdata.no/sok?q=" \o Plus(query) \o "\n"

\* is_synced on store st (the rows of sync_meta in the model have files)
is_synced(st) == st.sync_meta # {}

\* search(query, limit) on store st, without filters.  The queries of the
\* model hold none of the dashes that search replaces by a hyphen, and its
\* replacements of quotation marks replace a character by itself.
search(st, query, limit, fails) ==
    IF query = "" \/ str_strip(query) = ""
    THEN { Returned("**Feil:** Søkestreng kan ikke være tom. "
                    \o "Oppgi ett eller flere søkeord.") }
    ELSE LET cleaned == str_strip(query)
         IN  IF "is_synced" \in fails THEN { Raises("is_synced") }
             ELSE IF is_synced(st) /\ "search" \notin fails
             THEN { IF fts_results # << >>
                    THEN Returned(_format_fts_results(cleaned, fts_results))
                    ELSE Returned(AliasSearch(cleaned, limit))
                    : fts_results \in search_of(st, cleaned, limit) }
             ELSE { Returned(AliasSearch(cleaned, limit)) }

\* find_related_regulations(lov_id) on store st: the rows of the model
\* have no based_on, so that no regulation is based on any law.
find_related_regulations_of(st, lov_id) == << >>

\* get_related_regulations(lov_id) on store st
get_related_regulations(st, lov_id, fails) ==
    IF lov_id = "" \/ str_strip(lov_id) = ""
    THEN { Returned("**Feil:** Lov-ID kan ikke vaere tom.") }
    ELSE { IF "find_related_regulations" \in fails
           THEN Returned("**Feil:** Kunne ikke hente relaterte forskrifter for "
                         \o lov_id \o ".")
           ELSE IF find_related_regulations_of(st, r.id) = << >>
           THEN Returned("Ingen forskrifter funnet med hjemmel i **" \o lov_id
                         \o "** ('" \o r.id \o "').")
           ELSE Returned("## Forskrifter med hjemmel i " \o lov_id \o "\n")
           : r \in _resolve_id(st, lov_id, fails) }

\* backend.list_ministries() on store st: the rows of the model have no
\* ministry.
list_ministries_of(st) == << >>

\* list_ministries() on store st
list_ministries(st, fails) ==
    IF "list_ministries" \in fails
    THEN Returned("**Feil:** Kunne ikke hente departementsliste.")
    ELSE LET ministries == list_ministries_of(st)
         IN  IF ministries = << >>
             THEN Returned("Ingen departementer funnet. "
                           \o "Data er kanskje ikke synkronisert.")
             ELSE Returned(Join(<< "## Departementer (" \o IntStr(Len(ministries))
                                   \o " stk)\n" >>
                                \o [i \in 1..Len(ministries) |-> "- " \o ministries[i]]
                                \o << "", "---",
                                      "**Bruk med filter:** 'sok('emne', departement='Klima')' "
                                      \o "eller 'semantisk_sok('emne', ministry='Justis')'" >>,
                                "\n"))

\* list_legal_areas() on the SQLite backend, which has no list_legal_areas
list_legal_areas(st, fails) ==
    Returned("**Feil:** Denne funksjonen krever Supabase-backend.")

(***************************************************************************)
(* Calls of the query operations with failing store calls.                 *)
(***************************************************************************)
\* The store calls that can fail.
StoreCalls ==
    {"_find_document", "get_document", "get_section", "list_sections",
     "get_sections_batch", "get_sync_status", "is_synced", "search",
     "find_related_regulations", "list_ministries"}

\* No store call fails, one fails, or all do.
Failures == {{}} \cup {{c} : c \in StoreCalls} \cup {StoreCalls}

FaultIds == {"", "avhl", "xyz"}

FaultParagrafs == {None, Some("3-9"), Some("99-99")}

FaultLists == {<< >>, << "3-9" >>, << "99-99" >>}

Queries == {"", "mangel", "kan opp", "husleie", "xyz", " tek17 "}

Limits == {1, 20}

\* search(query, limit)
call_search(query, limit, fails) ==
    /\ q = NoQuery
    /\ \E out \in search(store, query, limit, fails) :
          q' = [op |-> "search", query |-> query, limit |-> limit,
                fails |-> fails, out |-> out]
    /\ UNCHANGED << syncVars, reader, retryVars, store, embeddings >>

\* get_related_regulations(lov_id)
call_get_related_regulations(lov_id, fails) ==
    /\ q = NoQuery
    /\ \E out \in get_related_regulations(store, lov_id, fails) :
          q' = [op |-> "get_related_regulations", id |-> lov_id,
                fails |-> fails, out |-> out]
    /\ UNCHANGED << syncVars, reader, retryVars, store, embeddings >>

\* list_ministries()
call_list_ministries(fails) ==
    /\ q = NoQuery
    /\ q' = [op |-> "list_ministries", fails |-> fails,
             out |-> list_ministries(store, fails)]
    /\ UNCHANGED << syncVars, reader, retryVars, store, embeddings >>

\* list_legal_areas()
call_list_legal_areas(fails) ==
    /\ q = NoQuery
    /\ q' = [op |-> "list_legal_areas", fails |-> fails,
             out |-> list_legal_areas(store, fails)]
    /\ UNCHANGED << syncVars, reader, retryVars, store, embeddings >>

FaultNext ==
    \/ \E lov_id \in FaultIds, paragraf \in FaultParagrafs, fails \in Failures :
          call_lookup_law(lov_id, paragraf, None, fails)
    \/ \E forskrift_id \in FaultIds \ {""}, paragraf \in FaultParagrafs, fails \in Failures :
          call_lookup_regulation(forskrift_id, paragraf, None, fails)
    \/ \E lov_id \in FaultIds, section_ids \in FaultLists, fails \in Failures :
          call_lookup_sections_batch(lov_id, section_ids, None, fails)
    \/ \E query \in Queries, limit \in Limits, fails \in Failures :
          call_search(query, limit, fails)
    \/ \E lov_id \in FaultIds, fails \in Failures :
          call_get_related_regulations(lov_id, fails)
    \/ \E fails \in Failures : call_list_ministries(fails)
    \/ \E fails \in Failures : call_list_legal_areas(fails)
    \/ query_returns

(***************************************************************************)
(* Hybrid search (LovdataVectorSearch.search in vector_search.py), which   *)
(* with_retry() wraps.  q holds the call and the position of the body of   *)
(* search in the attempt the wrapper is at; rt and rpc are the wrapper's.  *)
(***************************************************************************)
DEFAULT_FTS_WEIGHT == 5     \* tenths
IVFFLAT_PROBES == 10

\* What _generate_query_embedding can raise: no API key, the network, the
\* status of the response.
EmbedderErrors ==
    { [cls |-> "ValueError"], [cls |-> "ConnectError"],
      [cls |-> "HTTPStatusError", status |-> 429, retry_after |-> None],
      [cls |-> "HTTPStatusError", status |-> 500, retry_after |-> None] }

\* What supabase.rpc(...).execute() raises in the model.
RpcErrors ==
    { [cls |-> "ConnectError"], [cls |-> "ValueError"],
      [cls |-> "APIError", code |-> "42501", jwt |-> FALSE, unique |-> FALSE] }

\* A key of a row of the response: present with a value, or missing.
Has(value) == << value >>
Missing == << >>

\* row.get(key, default)
Get(entry, default) == IF entry = Missing THEN default ELSE entry[1]

\* result.data: None, a list of rows, or something that is not a list
NoData == [type |-> "None"]
NotAList == [type |-> "dict"]
Rows(rows) == [type |-> "list", rows |-> rows]

\* result.data of search_lovdata: scores are in thousandths.
FtsData ==
    { NoData, NotAList, Rows(<< >>),
      Rows(<< [dok_id |-> "lov/1999-03-26-17",
               title |-> Has(Some("Lov om husleieavtaler")),
               snippet |-> Has("Leieavtalen kan sies opp."),
               short_title |-> Has("Husleieloven"), doc_type |-> Has("lov"),
               ministry |-> Has(None), based_on |-> Has(None),
               legal_area |-> Has(None), rank |-> Has(607)] >>),
      Rows(<< [dok_id |-> "lov/1999-03-26-17",
               title |-> Has(Some("Lov om husleieavtaler")),
               snippet |-> Has("Leieavtalen kan sies opp."),
               short_title |-> Has("Husleieloven"), doc_type |-> Has("lov"),
               ministry |-> Has(None), based_on |-> Has(None),
               legal_area |-> Has(None), rank |-> Has(607)],
              [dok_id |-> "lov/1992-07-03-93", title |-> Missing,
               snippet |-> Missing, short_title |-> Missing, doc_type |-> Missing,
               ministry |-> Missing, based_on |-> Missing, legal_area |-> Missing,
               rank |-> Missing] >>),
      Rows(<< [dok_id |-> "forskrift/2007-05-31-590",
               title |-> Has(Some("Forskrift om husleie")),
               snippet |-> Has("Leieavtalen kan sies opp."),
               short_title |-> Has(""), doc_type |-> Has("forskrift"),
               ministry |-> Has(Some("Kommunal- og distriktsdepartementet")),
               based_on |-> Has(None), legal_area |-> Has(Some("Bolig")),
               rank |-> Has(301)] >>) }

\* result.data of search_lovdata_hybrid
HybridData ==
    { NoData, Rows(<< >>),
      Rows(<< [dok_id |-> "lov/1999-03-26-17", section_id |-> "9-2",
               title |-> Has(Some("Oppsigelse")),
               content |-> "Leieavtalen kan sies opp.",
               short_title |-> "Husleieloven", doc_type |-> "lov",
               ministry |-> Missing, based_on |-> Missing, legal_area |-> Missing,
               similarity |-> 812, fts_rank |-> 607, combined_score |-> 710] >>),
      Rows(<< [dok_id |-> "forskrift/2007-05-31-590", section_id |-> "1",
               title |-> Has(None),
               content |-> "Leieavtalen kan sies opp.",
               short_title |-> "", doc_type |-> "forskrift",
               ministry |-> Has(Some("Kommunal- og distriktsdepartementet")),
               based_on |-> Has(None), legal_area |-> Has(Some("Bolig")),
               similarity |-> 540, fts_rank |-> 301, combined_score |-> 420] >>),
      Rows(<< [dok_id |-> "forskrift/2009-06-19-699", section_id |-> "I",
               title |-> Has(None),
               content |-> "I forskriften gjøres følgende endringer.",
               short_title |-> "", doc_type |-> "forskrift",
               ministry |-> Has(Some("Kommunal- og distriktsdepartementet")),
               based_on |-> Missing, legal_area |-> Has(Some("Bolig")),
               similarity |-> 402, fts_rank |-> 0, combined_score |-> 201] >>) }

\* The documents of the rows above whose is_amendment is set.
Amendments == {"forskrift/2009-06-19-699"}

\* not result.data or not isinstance(result.data, list)
IsRows(data) == data.type = "list" /\ data.rows # << >>

\* The list _fallback_fts_search builds of the response of search_lovdata.
FtsResults(data) ==
    IF ~IsRows(data) THEN << >>
    ELSE [i \in 1..Len(data.rows) |->
            LET row == data.rows[i]
            IN  [dok_id |-> row.dok_id, section_id |-> "",
                 title |-> Get(row.title, None),
                 content |-> Get(row.snippet, ""),
                 short_title |-> Get(row.short_title, ""),
                 doc_type |-> Get(row.doc_type, ""),
                 ministry |-> Get(row.ministry, None),
                 based_on |-> Get(row.based_on, None),
                 legal_area |-> Get(row.legal_area, None),
                 similarity |-> 0,
                 fts_rank |-> Get(row.rank, 0),
                 combined_score |-> Get(row.rank, 0)]]

\* The list search builds of the response of search_lovdata_hybrid.
HybridResults(data) ==
    IF ~IsRows(data) THEN << >>
    ELSE [i \in 1..Len(data.rows) |->
            LET row == data.rows[i]
            IN  [dok_id |-> row.dok_id, section_id |-> row.section_id,
                 title |-> Get(row.title, None), content |-> row.content,
                 short_title |-> row.short_title, doc_type |-> row.doc_type,
                 ministry |-> Get(row.ministry, None),
                 based_on |-> Get(row.based_on, None),
                 legal_area |-> Get(row.legal_area, None),
                 similarity |-> row.similarity, fts_rank |-> row.fts_rank,
                 combined_score |-> row.combined_score]]

\* An argument list that asks for a limit of 10 whatever the caller's.
FtsParamsDefaultLimit(query, limit) == [query_text |-> query, max_results |-> 10]

\* The arguments of search_lovdata in _fallback_fts_search.
FtsParams(query, limit) == [query_text |-> query, max_results |-> limit]

\* The filters of search at their defaults.
NoFilters ==
    [doc_type |-> None, ministry |-> None, exclude_amendments |-> TRUE,
     legal_area |-> None]

\* The arguments of search_lovdata_hybrid, with the default weight and
\* probes of search.
HybridParams(query, limit, filters) ==
    [query_text |-> query, query_embedding |-> "embedding", match_count |-> limit,
     fts_weight |-> DEFAULT_FTS_WEIGHT, ivfflat_probes |-> IVFFLAT_PROBES,
     doc_type_filter |-> filters.doc_type, ministry_filter |-> filters.ministry,
     exclude_amendments |-> filters.exclude_amendments,
     legal_area_filter |-> filters.legal_area]

\* The rpc the body of search is about to execute.
RpcCall ==
    IF q.pc = "fts"
    THEN [name |-> "search_lovdata", params |-> FtsParams(q.query, q.limit)]
    ELSE [name |-> "search_lovdata_hybrid",
          params |-> HybridParams(q.query, q.limit, q.filters)]

\* The filter an rpc was given under key, or the function's default.
GivenFilter(params, key, default) ==
    IF key \in DOMAIN params THEN params[key] ELSE default

\* text ILIKE '%' || part || '%', which no NULL text satisfies
ILike(text, part) ==
    /\ text # None
    /\ str_contains(str_lower(text[1]), str_lower(part))

\* The document of a row passes the filters the function was given: the
\* doc_type, the ministry and the legal area as substrings, and no amending
\* document unless they were asked for.
PassesFilters(doc, params) ==
    LET doc_type == GivenFilter(params, "doc_type_filter", None)
        ministry == GivenFilter(params, "ministry_filter", None)
        legal_area == GivenFilter(params, "legal_area_filter", None)
        exclude == GivenFilter(params, "exclude_amendments", TRUE)
    IN  /\ doc_type # None => doc.doc_type = doc_type[1]
        /\ ministry # None => ILike(doc.ministry, ministry[1])
        /\ legal_area # None => ILike(doc.legal_area, legal_area[1])
        /\ exclude => doc.dok_id \notin Amendments

\* What the function of the database can answer to call: rows that pass
\* the filters it was given.
Answers(call) ==
    IF call.name = "search_lovdata"
    THEN { data \in FtsData :
             \A i \in DOMAIN FtsResults(data) :
                PassesFilters(FtsResults(data)[i], call.params) }
    ELSE { data \in HybridData :
             \A i \in DOMAIN HybridResults(data) :
                PassesFilters(HybridResults(data)[i], call.params) }

\* search(query, limit, filters) is called: the wrapper starts its loop and the body
\* stands at the try of the embedding.  embed_failed tells whether the
\* embedding failed in the attempt the wrapper is at, rpcs lists the rpcs
\* executed, data is what the last of them returned.
hybrid_search_call(query, limit, filters) ==
    /\ rpc = "idle"
    /\ q = NoQuery
    /\ rt' = [max_attempts |-> None, _max |-> EffectiveMax(None),
              attempt |-> 0, calls |-> 0, last_raised |-> None,
              last_exception |-> None, slept |-> << >>, outcome |-> None]
    /\ rpc' = "loop"
    /\ q' = [op |-> "hybrid_search", query |-> query, limit |-> limit,
             filters |-> filters, pc |-> "embed", embed_failed |-> FALSE, rpcs |-> << >>,
             data |-> None, out |-> None]
    /\ UNCHANGED << syncVars, reader, store, embeddings >>

\* _generate_query_embedding returns, from the cache or from the API.
embedding_returns ==
    /\ q.op = "hybrid_search"
    /\ q.pc = "embed"
    /\ q' = [q EXCEPT !.pc = "hybrid", !.embed_failed = FALSE]
    /\ embeddings' = embeddings \cup {q.query}
    /\ UNCHANGED << syncVars, reader, retryVars, store >>

\* _generate_query_embedding raises e, which it can only when the query is
\* not cached: except Exception takes the body to _fallback_fts_search.
embedding_raises(e) ==
    /\ q.op = "hybrid_search"
    /\ q.pc = "embed"
    /\ q.query \notin embeddings
    /\ q' = [q EXCEPT !.pc = "fts", !.embed_failed = TRUE]
    /\ UNCHANGED << syncVars, reader, retryVars, store, embeddings >>

\* The rpc returns data: the body returns its list and so does the wrapper.
rpc_returns(data) ==
    /\ q.op = "hybrid_search"
    /\ q.pc \in {"fts", "hybrid"}
    /\ data \in Answers(RpcCall)
    /\ rt' = [rt EXCEPT !.calls = @ + 1, !.last_raised = None,
                        !.outcome = Some([returned |-> TRUE])]
    /\ rpc' = "returned"
    /\ q' = [q EXCEPT !.pc = "done",
                      !.rpcs = Append(@, RpcCall),
                      !.data = Some(data),
                      !.out = Some([raised |-> FALSE,
                                    results |-> IF q.pc = "fts" THEN FtsResults(data)
                                                ELSE HybridResults(data)])]
    /\ UNCHANGED << syncVars, reader, store, embeddings >>

\* The rpc raises e: the body has no handler for it, the wrapper retries
\* the body or raises.
rpc_raises(e, jitter) ==
    /\ q.op = "hybrid_search"
    /\ q.pc \in {"fts", "hybrid"}
    /\ Handle(e, jitter)
    /\ q' = IF rpc' = "loop"
            THEN [q EXCEPT !.pc = "embed", !.embed_failed = FALSE,
                           !.rpcs = Append(@, RpcCall)]
            ELSE [q EXCEPT !.pc = "done",
                           !.rpcs = Append(@, RpcCall),
                           !.out = Some([raised |-> TRUE, from |-> "rpc",
                                         error |-> rt'.outcome[1].raised])]
    /\ UNCHANGED << syncVars, reader, store, embeddings >>

\* The caller has the list or the exception.
hybrid_search_ends ==
    /\ q.op = "hybrid_search"
    /\ q.pc = "done"
    /\ rpc' = "idle"
    /\ rt' = << >>
    /\ q' = NoQuery
    /\ UNCHANGED << syncVars, reader, store, embeddings >>

SearchQueries == {"mangel", "kan opp"}

SearchLimits == {3, 10}

SearchFilters ==
    { NoFilters,
      [NoFilters EXCEPT !.doc_type = Some("forskrift")],
      [NoFilters EXCEPT !.ministry = Some("kommunal")],
      [NoFilters EXCEPT !.legal_area = Some("Bolig")],
      [NoFilters EXCEPT !.exclude_amendments = FALSE] }

SearchNext ==
    \/ \E query \in SearchQueries, limit \in SearchLimits, filters \in SearchFilters :
          hybrid_search_call(query, limit, filters)
    \/ embedding_returns
    \/ \E e \in EmbedderErrors : embedding_raises(e)
    \/ \E data \in FtsData \cup HybridData : rpc_returns(data)
    \/ \E e \in RpcErrors : rpc_raises(e, 0)
    \/ hybrid_search_ends

(***************************************************************************)
(* Calls of list_sections.                                                 *)
(***************************************************************************)
\* Section ids as _parse_sections stores them: the text of the
\* legalArticleValue element without the section mark, runs of whitespace
\* collapsed to one space.
SortIds == {"1", "1a", "1A", "1 a", "2", "3-1", "3.1", "10", "10a", "kap 2"}

\* The stores that hold one act with up to three of these sections.
SortStores ==
    { [documents |-> {Husleieloven},
       sections |-> [k \in {<< Husleieloven.dok_id, sid >> : sid \in ids}
                        |-> [title |-> None, content |-> "Tekst."]],
       trigram |-> FALSE]
      : ids \in {S \in SUBSET SortIds : Cardinality(S) \in 1..3} }

\* backend.list_sections(dok_id)
call_list_sections(dok_id) ==
    /\ q = NoQuery
    /\ \E out \in list_sections_of(store, dok_id) :
          q' = [op |-> "list_sections", id |-> dok_id, out |-> out]
    /\ UNCHANGED << syncVars, reader, retryVars, store, embeddings >>

SortNext ==
    \/ \E dok_id \in {"lov/1999-03-26-17", "husleieloven"} : call_list_sections(dok_id)
    \/ query_returns

SortInit ==
    /\ SyncInit
    /\ RetryIdle
    /\ store \in SortStores
    /\ embeddings = {}
    /\ q = NoQuery

(***************************************************************************)
(* _format_based_on (service.py).                                          *)
(***************************************************************************)
\* re.sub(r";\s*", "", raw)
RECURSIVE DropDelimiters(_)
DropDelimiters(s) ==
    LET at == {i \in 1..Len(s) : Char(s, i) = ";"}
        first == CHOOSE i \in at : \A j \in at : i <= j
    IN  IF at = {} THEN s
        ELSE str_upto(s, first - 1) \o DropDelimiters(str_lstrip(str_from(s, first)))

RefPrefixes == {"lov/", "forskrift/"}

\* Whether (?:lov|forskrift)/\d{4} matches s from position i on.
BoundaryAt(s, i) ==
    \E w \in RefPrefixes :
        /\ i + Len(w) + 3 <= Len(s)
        /\ SubSeq(s, i, i + Len(w) - 1) = w
        /\ \A k \in 0..3 : IsDigit(Char(s, i + Len(w) + k))

\* [p for p in re.split(r"(?=(?:lov|forskrift)/\d{4})", s) if p]
SplitRefs(s) ==
    LET starts == IF s = "" THEN {} ELSE {1} \cup {i \in 1..Len(s) : BoundaryAt(s, i)}
        n == Cardinality(starts)
        nth(k) == CHOOSE i \in starts : Cardinality({j \in starts : j < i}) = k - 1
    IN  [k \in 1..n |-> SubSeq(s, nth(k), IF k = n THEN Len(s) ELSE nth(k + 1) - 1)]

NoMatch == [matched |-> FALSE]

\* re.match(r"((?:lov|forskrift)/\d{4}-\d{2}-\d{2}-\d+)(?:/§(.+))?$", ref)
\* for a ref of one line: the groups doc_id and paragraph, or no match.
MatchRef(ref) ==
    IF \E w \in RefPrefixes : StartsWith(ref, w)
    THEN LET w == CHOOSE v \in RefPrefixes : StartsWith(ref, v)
             date == str_from(ref, Len(w))
             number == DigitPrefix(str_from(date, 11))
             rest == str_from(date, 11 + Len(number))
         IN  IF /\ Len(date) >= 12
                /\ \A k \in {1, 2, 3, 4, 6, 7, 9, 10} : IsDigit(Char(date, k))
                /\ \A k \in {5, 8, 11} : Char(date, k) = "-"
                /\ number # ""
                /\ \/ rest = ""
                   \/ StartsWith(rest, "/§") /\ Len(rest) > 2
             THEN [matched |-> TRUE,
                   doc_id |-> str_upto(ref, Len(w) + 11 + Len(number)),
                   paragraph |-> IF rest = "" THEN None ELSE Some(str_from(rest, 2))]
             ELSE NoMatch
    ELSE NoMatch

\* grouped after one more ref: an OrderedDict as the list of its items.
GroupRef(grouped, ref) ==
    LET m == MatchRef(ref)
        key == IF m.matched THEN m.doc_id ELSE ref
        at == {i \in 1..Len(grouped) : grouped[i].doc_id = key}
        with_key == IF at = {} THEN Append(grouped, [doc_id |-> key, paragraphs |-> << >>])
                    ELSE grouped
        i == CHOOSE k \in 1..Len(with_key) : with_key[k].doc_id = key
    IN  IF m.matched
        THEN IF m.paragraph # None /\ m.paragraph[1] # ""
             THEN [with_key EXCEPT ![i].paragraphs = Append(@, m.paragraph[1])]
             ELSE with_key
        ELSE [with_key EXCEPT ![i].paragraphs = << >>]

\* the loop over parts_raw
RECURSIVE GroupRefs(_, _)
GroupRefs(grouped, parts_raw) ==
    IF parts_raw = << >> THEN grouped
    ELSE GroupRefs(GroupRef(grouped, Head(parts_raw)), Tail(parts_raw))

\* the text of one group
GroupText(g) ==
    IF g.paragraphs = << >> THEN g.doc_id
    ELSE IF Len(g.paragraphs) = 1 THEN g.doc_id \o " § " \o g.paragraphs[1]
    ELSE g.doc_id \o " §§ " \o Join(g.paragraphs, ", ")

\* _format_based_on(raw)
_format_based_on(raw) ==
    LET parts_raw == SplitRefs(DropDelimiters(raw))
        grouped == GroupRefs(<< >>, parts_raw)
    IN  IF parts_raw = << >> THEN raw
        ELSE Join([i \in 1..Len(grouped) |-> GroupText(grouped[i])], "; ")

(***************************************************************************)
(* Calls of _format_based_on.                                              *)
(***************************************************************************)
\* A reference of a based_on value: a document, or a section of it.
Ref(doc_id, section) == [doc_id |-> doc_id, section |-> section]

Refs ==
    { Ref("lov/2005-06-17-62", None), Ref("lov/2005-06-17-62", Some("1-4")),
      Ref("lov/2005-06-17-62", Some("14-12")),
      Ref("forskrift/2007-05-31-590", None),
      Ref("forskrift/2007-05-31-590", Some("2")) }

MaxRefs == 3

RefLists == UNION { [1..n -> Refs] : n \in 1..MaxRefs }

\* The based_on value of a list of references: concatenated, as the older
\* rows have it, or delimited by "; ".
BasedOn(refs, delimiter) ==
    Join([i \in 1..Len(refs) |->
            IF refs[i].section = None THEN refs[i].doc_id
            ELSE refs[i].doc_id \o "/§" \o refs[i].section[1]],
         delimiter)

\* self._format_based_on(based_on)
call_format_based_on(refs, delimiter) ==
    /\ q = NoQuery
    /\ q' = [op |-> "_format_based_on", refs |-> refs,
             raw |-> BasedOn(refs, delimiter),
             out |-> _format_based_on(BasedOn(refs, delimiter))]
    /\ UNCHANGED << syncVars, reader, retryVars, store, embeddings >>

BasedOnNext ==
    \/ \E refs \in RefLists, delimiter \in {"", "; "} : call_format_based_on(refs, delimiter)
    \/ query_returns

(***************************************************************************)
(* _format_hierarchical_toc (service.py).                                  *)
(***************************************************************************)
MAX_SECTIONS_PER_STRUCT == 8

\* x.get("address", "") or ""
AddressOf(x) == IF x.address = None THEN "" ELSE x.address[1]

\* f"{struct.get('structure_type')}:{struct.get('structure_id')}"
StructKey(struct) == struct.structure_type \o ":" \o struct.structure_id

\* The loop over reversed(structures): the index of the structure the
\* section is put under, the last of the list whose address the section's
\* address starts with, or 0 when there is none.
MatchedStruct(sec, structures) ==
    LET hits == {i \in 1..Len(structures) :
                   /\ AddressOf(structures[i]) # ""
                   /\ StartsWith(AddressOf(sec), AddressOf(structures[i]))}
    IN  IF hits = {} THEN 0 ELSE CHOOSE i \in hits : \A j \in hits : j <= i

\* structure_sections.get(key, [])
structure_sections(key, secs, structures) ==
    SelectSeq(secs, LAMBDA sec :
        /\ MatchedStruct(sec, structures) # 0
        /\ StructKey(structures[MatchedStruct(sec, structures)]) = key)

orphan_sections(secs, structures) ==
    SelectSeq(secs, LAMBDA sec : MatchedStruct(sec, structures) = 0)

\* x[n:]
Drop(x, n) == IF n >= Len(x) THEN << >> ELSE SubSeq(x, n + 1, Len(x))
\* x[:n]
Take(x, n) == IF n >= Len(x) THEN x ELSE SubSeq(x, 1, n)

\* The lines of one structure: its heading and the sections under its key.
StructLines(struct, secs, structures) ==
    LET indent == IF struct.structure_type = "del" THEN ""
                  ELSE IF struct.structure_type = "kapittel" THEN "  "
                  ELSE "    "
        struct_secs == structure_sections(StructKey(struct), secs, structures)
        shown == Take(struct_secs, MAX_SECTIONS_PER_STRUCT)
        rest == Drop(struct_secs, MAX_SECTIONS_PER_STRUCT)
        sec_title(sec) == LET t == IF sec.title = None THEN "" ELSE sec.title[1]
                          IN  IF Len(t) > 35 THEN str_upto(t, 32) \o "..." ELSE t
    IN  (IF struct.structure_type = "del" THEN << "" >> ELSE << >>)
        \o << indent \o "**" \o struct.title \o "**" >>
        \o [i \in 1..Len(shown) |->
              indent \o "  - § " \o shown[i].section_id \o ": " \o sec_title(shown[i])
              \o " (" \o IntStr(shown[i].estimated_tokens) \o " tok)"]
        \o (IF rest # << >>
            THEN << indent \o "  - *... og " \o IntStr(Len(rest)) \o " flere ("
                    \o IntStr(total_tokens(rest)) \o " tok)*" >>
            ELSE << >>)

\* The lines of the sections no structure matches.
OrphanLines(orphans) ==
    IF orphans = << >> THEN << >>
    ELSE << "", "**Andre paragrafer:**" >>
         \o [i \in 1..Len(Take(orphans, 20)) |->
               "  - § " \o orphans[i].section_id \o " ("
               \o IntStr(orphans[i].estimated_tokens) \o " tok)"]
         \o (IF Len(orphans) > 20
             THEN << "  - *... og " \o IntStr(Len(orphans) - 20) \o " flere*" >>
             ELSE << >>)

\* the loop over structures
RECURSIVE AllStructLines(_, _, _)
AllStructLines(todo, secs, structures) ==
    IF todo = << >> THEN << >>
    ELSE StructLines(Head(todo), secs, structures)
         \o AllStructLines(Tail(todo), secs, structures)

\* _format_hierarchical_toc(sections, structures)
_format_hierarchical_toc(secs, structures) ==
    AllStructLines(structures, secs, structures)
    \o OrphanLines(orphan_sections(secs, structures))

(***************************************************************************)
(* Calls of _format_hierarchical_toc.                                      *)
(***************************************************************************)
StructureNode(type, id, title, address) ==
    [structure_type |-> type, structure_id |-> id, title |-> title,
     address |-> Some(address)]

\* The structure of an act in two parts, in document order.  Chapters are
\* numbered within their part: both parts have a chapter 1.
ActStructure ==
    << StructureNode("del", "1", "Del I. Alminnelige regler", "/del/1/"),
       StructureNode("kapittel", "1", "Kapittel 1. Virkeområde", "/del/1/kapittel/1/"),
       StructureNode("del", "2", "Del II. Særlige regler", "/del/2/"),
       StructureNode("kapittel", "1", "Kapittel 1. Kjøp", "/del/2/kapittel/1/"),
       StructureNode("kapittel", "2", "Kapittel 2. Leie", "/del/2/kapittel/2/") >>

SectionSummary(id, title, tokens, address) ==
    [section_id |-> id, title |-> title, estimated_tokens |-> tokens,
     address |-> address]

\* Section summaries in the order of list_sections.
ActSections ==
    << SectionSummary("1", Some("Formål"), 12, Some("/del/1/kapittel/1/paragraf/1/")),
       SectionSummary("2", None, 40, Some("/del/2/paragraf/2/")),
       SectionSummary("5", Some("Kjøperens krav ved forsinkelse og mangel"), 120,
                      Some("/del/2/kapittel/1/paragraf/5/")),
       SectionSummary("9", Some("Leie"), 7, Some("/del/2/kapittel/2/paragraf/9/")),
       SectionSummary("20", Some("Ikrafttredelse"), 3, None) >>

\* the lists that keep the order of list: list[i] for the i of I
Sublist(list, I) == SelectSeq([i \in 1..Len(list) |-> <<i, list[i]>>], LAMBDA p : p[1] \in I)

Sublists(list) ==
    { [k \in 1..Len(Sublist(list, I)) |-> Sublist(list, I)[k][2]]
      : I \in SUBSET (1..Len(list)) }

\* self._format_hierarchical_toc(sections, structures)
call_format_hierarchical_toc(secs, structures) ==
    /\ q = NoQuery
    /\ q' = [op |-> "_format_hierarchical_toc", secs |-> secs,
             structures |-> structures,
             out |-> _format_hierarchical_toc(secs, structures)]
    /\ UNCHANGED << syncVars, reader, retryVars, store, embeddings >>

TocNext ==
    \/ \E secs \in Sublists(ActSections), structures \in Sublists(ActStructure) :
          call_format_hierarchical_toc(secs, structures)
    \/ query_returns

(***************************************************************************)
(* Concurrent callers of _generate_query_embedding (vector_search.py).     *)
(* functools.lru_cache looks the key up, and on a miss calls the wrapped   *)
(* function outside any lock and stores what it returned; an exception     *)
(* of the wrapped function passes through and nothing is stored.  In this  *)
(* part q holds the position of each calling thread and embeddings is the  *)
(* set of cached keys, which stays far below maxsize, so that no entry is  *)
(* evicted.                                                                *)
(***************************************************************************)
Callers == {1, 2}

IdleCaller == [pc |-> "idle", query |-> "", hit |-> FALSE, error |-> None]

\* The position of every calling thread.
CallersOf(qq) == IF qq.op = "embed" THEN qq.callers ELSE [t \in Callers |-> IdleCaller]

\* Thread t calls _generate_query_embedding(query): the wrapper of lru_cache
\* returns the cached tuple, or on a miss enters the body, which posts the
\* query to the embedding API.
embed_call(t, query) ==
    /\ q.op \in {"none", "embed"}
    /\ CallersOf(q)[t].pc = "idle"
    /\ q' = [op |-> "embed",
             callers |-> [CallersOf(q) EXCEPT ![t] =
                 IF query \in embeddings
                 THEN [pc |-> "returned", query |-> query, hit |-> TRUE,
                       error |-> None]
                 ELSE [pc |-> "post", query |-> query, hit |-> FALSE,
                       error |-> None]]]
    /\ UNCHANGED << syncVars, reader, retryVars, store, embeddings >>

\* The API answers thread t: the body returns the tuple and the wrapper
\* stores it under the key, unless the key was added while the body ran.
post_returns(t) ==
    /\ q.op = "embed"
    /\ q.callers[t].pc = "post"
    /\ embeddings' = embeddings \cup {q.callers[t].query}
    /\ q' = [q EXCEPT !.callers[t].pc = "returned"]
    /\ UNCHANGED << syncVars, reader, retryVars, store >>

\* The post or raise_for_status raises e in thread t: the wrapper stores
\* nothing.
post_raises(t, e) ==
    /\ q.op = "embed"
    /\ q.callers[t].pc = "post"
    /\ q' = [q EXCEPT !.callers[t].pc = "raised", !.callers[t].error = Some(e)]
    /\ UNCHANGED << syncVars, reader, retryVars, store, embeddings >>

\* The caller in thread t has the tuple or the exception.
embed_ends(t) ==
    /\ q.op = "embed"
    /\ q.callers[t].pc \in {"returned", "raised"}
    /\ q' = [q EXCEPT !.callers[t] = IdleCaller]
    /\ UNCHANGED << syncVars, reader, retryVars, store, embeddings >>

EmbedNext ==
    \/ \E t \in Callers, query \in SearchQueries : embed_call(t, query)
    \/ \E t \in Callers : post_returns(t)
    \/ \E t \in Callers, e \in EmbedderErrors : post_raises(t, e)
    \/ \E t \in Callers : embed_ends(t)

(***************************************************************************)
(* The specifications.                                                     *)
(***************************************************************************)
Init == SyncInit /\ RetryIdle /\ QueryIdle

\* The query engine on a store that ingestion has left behind.
QueryInit ==
    /\ SyncInit
    /\ RetryIdle
    /\ store \in Stores
    /\ embeddings = {}
    /\ q = NoQuery

Next == SyncNext

Spec == Init /\ [][Next]_vars

SpecAll == Init /\ [][AllNext]_vars

ReadSpec == Init /\ [][ReadNext]_vars

ReingestSpec == Init /\ [][ReingestNext]_vars

UpsertSpec == Init /\ [][UpsertNext]_vars

RetrySpec == Init /\ [][RetryNext]_vars

ResolveSpec == QueryInit /\ [][ResolveNext]_vars

LookupSpec == LookupInit /\ [][LookupNext]_vars

BatchSpec == BatchInit /\ [][BatchNext]_vars

FaultSpec == BatchInit /\ [][FaultNext]_vars

SearchSpec == Init /\ [][SearchNext]_vars

SortSpec == SortInit /\ [][SortNext]_vars

BasedOnSpec == Init /\ [][BasedOnNext]_vars

TocSpec == Init /\ [][TocNext]_vars

EmbedSpec == Init /\ [][EmbedNext]_vars

(***************************************************************************)
(* The claims about the ingestion pipeline.                                *)
(***************************************************************************)
\* sync_dataset has just returned from a sync that downloaded and indexed.
JustSynced == pc = "returned" /\ run.committed

\* The section ids of a file.
SectionIdsOf(file) == {file.secs[i][1] : i \in 1..Len(file.secs)}

AllSectionIds == UNION {SectionIdsOf(c) : c \in AllContents}

\* C1: after sync_dataset completes successfully for a dataset, a stored
\* document of the dataset's doc_type has is_current = true if and only if
\* its dok_id appeared in an entry of the archive just downloaded.
C1_CurrentIffInLatestArchive ==
    JustSynced =>
        \A d \in DOMAIN documents :
            documents[d].doc_type = doc_type_of(cur) =>
                (documents[d].is_current <=> d \in ArchiveDokIds(run.tmp))

\* C2: after a document is re-ingested, the sections stored for its dok_id
\* are exactly the sections of the new version: a section_id the new version
\* does not have is not returned by get_section, get_sections_batch or
\* list_sections.
C2_ReingestReplacesSections ==
    JustSynced =>
        \A f \in DOMAIN run.tmp :
            run.tmp[f].ok =>
                LET d == run.tmp[f].dok_id
                    ids == SectionIdsOf(run.tmp[f])
                IN /\ list_sections(d) = ids
                   /\ \A s \in AllSectionIds \ ids :
                        /\ get_section(d, s) = None
                        /\ get_sections_batch(d, << s >>) = << >>

C4_FtsCoversSections ==
    \A k \in DOMAIN sections :
        sections[k] # "" => << k[1], k[2], sections[k] >> \in sections_fts

\* C5: a document that was in a synced archive and is absent from the
\* archive of the latest successful sync is not current after that sync and
\* its sections are still returned by get_section; one that is in the
\* archive of the latest successful sync is current.
C5_OmittedThenRestored ==
    JustSynced =>
        \A d \in synced[cur].dok_ids :
            /\ d \in DOMAIN documents
            /\ documents[d].is_current <=> d \in ArchiveDokIds(run.tmp)
            /\ \E s \in AllSectionIds : get_section(d, s) # None

C8_FailureDoesNotStopOthers ==
    /\ [](job.all /\ pc = "done" /\ ~job.interrupted
            => DOMAIN job.results = DatasetNames)
    /\ [][ ( /\ job.all
             /\ pc \notin {"returned", "done", "idle"}
             /\ job'.queue # job.queue )
           => /\ job'.queue = Tail(job.queue)
              /\ job'.results = Upsert(job.results, cur, Failure)
              /\ pc' = IF Len(job.queue) > 1 THEN "start" ELSE "done"
              /\ run' = [NoRun EXCEPT !.force = job.force]
              /\ UNCHANGED << documents, sections, sections_fts, sync_meta >>
              /\ \A ds \in DatasetNames \ {cur} : dir'[ds] = dir[ds]
         ]_vars

\* C8's case: the sync of lover failed and the sync of forskrifter, started
\* after it, succeeded.
C8_Witness ==
    /\ pc = "done"
    /\ job.all
    /\ DOMAIN job.results = DatasetNames
    /\ job.results["lover"] = Failure
    /\ job.results["forskrifter"] # Failure
    /\ "forskrift/1" \in DOMAIN documents

\* C9: in sync_all, after a KeyboardInterrupt during the sync of a dataset
\* the job is over: no later dataset is started, the results hold exactly
\* the datasets that ended before it, and nothing is written to the
\* directories or the store.
C9_InterruptStopsJob ==
    /\ [](job.all /\ job.interrupted
            => /\ pc = "done"
               /\ job.queue # << >>
               /\ DOMAIN job.results =
                     {DATASETS[i] : i \in 1..(Len(DATASETS) - Len(job.queue))})
    /\ [][ (job.all /\ job.interrupted)
           => UNCHANGED << dir, documents, sections, sections_fts, sync_meta >>
         ]_vars

\* C9's case: the job was interrupted during the first dataset and the
\* second one was never started.
C9_Witness ==
    /\ pc = "done"
    /\ job.all
    /\ job.interrupted
    /\ job.queue = DATASETS
    /\ job.results = EmptyFn
    /\ dir["lover"] # EmptyFn
    /\ dir["forskrifter"] = EmptyFn

(***************************************************************************)
(* The claims about the retry layer.                                       *)
(***************************************************************************)
\* The failures C10 calls permanent: a PermanentError, an HTTP 4xx other
\* than 429, an auth error, a uniqueness violation.
IsPermanentFailure(e) ==
    \/ e.cls = "PermanentError"
    \/ e.cls = "HTTPStatusError" /\ e.status >= 400 /\ e.status <= 499
         /\ e.status # 429
    \/ e.cls = "APIError" /\ (e.jwt \/ StartsWith(e.code, "PGRST3"))
    \/ e.cls = "APIError" /\ (e.unique \/ e.code = "23505")

\* The failures C10 calls transient or rate-limit: a TransientError or
\* RateLimitError, a network error, an HTTP 429, 500, 502, 503 or 504, and
\* a 5xx of the relational backend.
IsRetryableFailure(e) ==
    /\ ~IsPermanentFailure(e)
    /\ \/ e.cls \in {"TransientError", "RateLimitError", "TimeoutException",
                     "ConnectError", "ConnectionError"}
       \/ e.cls = "HTTPStatusError" /\ e.status \in {429, 500, 502, 503, 504}
       \/ e.cls = "APIError" /\ (StartsWith(e.code, "5")
                                  \/ StartsWith(e.code, "PGRST5"))

IsDocumentId(id) ==
    \E d \in store.documents :
        \/ id = d.dok_id
        \/ _normalize_id(id) \in {d.dok_id, d.ref_id}

\* C11: resolving the id that a resolution returned returns that id again,
\* whenever that id names a document of the store; inputs resolved by the
\* alias table whose target is in the store are among these.
C11_ResolveIdempotent ==
    (q.op = "_resolve_id" /\ q.prev # None /\ IsDocumentId(q.alias))
        => q.out.id = q.alias

\* the key under which the alias table is consulted
AliasKey(x) == str_replace(str_replace(str_lower(x), " ", "-"), "_", "-")

\* the elements of a sequence
Range(seq) == {seq[i] : i \in 1..Len(seq)}

\* C12: _resolve_id returns the result of the first tier that hits: the
\* alias table under the normalised input, then find_document on the input,
\* then find_similar with threshold 0.4 for an input of at least 8
\* characters, then the input itself, in upper case when it starts with
\* lov or for.  No tier is consulted after a hit, and the fuzzy tier never
\* for an input shorter than 8 characters.
C12_FirstTierThatHits ==
    (q.op = "_resolve_id")
        => LET x == q.alias
               out == q.out
               hit1 == AliasKey(x) \in DOMAIN LOV_ALIASES
               found == IF "_find_document" \in q.fails THEN {}
                        ELSE _find_document(store, x) \ {None}
               hit2 == found # {}
               similar == IF "find_similar_law" \in q.fails \/ ~store.trigram THEN {}
                          ELSE find_similar_law(store, x, 4, 10) \ {None}
               hit3 == Len(x) >= 8 /\ similar # {}
           IN  /\ hit1 => out = Resolved(LOV_ALIASES[AliasKey(x)], << "LOV_ALIASES" >>)
               /\ (~hit1 /\ hit2) =>
                    /\ out.id \in {d[1].dok_id : d \in found}
                    /\ out.calls = << "LOV_ALIASES", "_find_document" >>
               /\ (~hit1 /\ ~hit2 /\ hit3) =>
                    /\ out.id \in {d[1].dok_id : d \in similar}
                    /\ out.calls = << "LOV_ALIASES", "_find_document", "find_similar_law" >>
               /\ (~hit1 /\ ~hit2 /\ ~hit3) =>
                    out.id = IF StartsWithLovFor(x) THEN str_upper(x) ELSE x
               /\ "find_similar_law" \in Range(out.calls) => Len(x) >= 8

\* The fuzzy tier decides: a misspelt short title of at least 8 characters
\* that no earlier tier matches resolves to the similar document.
C12_Witness ==
    /\ q.op = "_resolve_id"
    /\ q.alias = "Husleielova"
    /\ q.out.calls = << "LOV_ALIASES", "_find_document", "find_similar_law" >>
    /\ q.out.id = "lov/1999-03-26-17"

(***************************************************************************)
(* The claims about lookup and get_document.                               *)
(***************************************************************************)
IsLookup == q.op \in {"lookup_law", "lookup_regulation"}

\* The documents of the store that the lookup of id reads its sections from.
Matches(id) ==
    UNION { find_document_for(store, r.id) : r \in _resolve_id(store, id, {}) }

\* Document d has the section that section_id names.
HasSection(d, section_id) ==
    << d.dok_id, clean_section_id(section_id) >> \in DOMAIN store.sections

SectionNotFoundMessage(text) ==
    StartsWith(text, "**Feil:** § ") /\ str_contains(text, " finnes ikke i ")

DocumentNotFoundMessage(text) == StartsWith(text, "**Feil:** Fant ikke ")

\* C13: a lookup of a section answers "section not found" exactly when the
\* document exists and neither the section nor its form without the nr
\* clause exists, and "document not found" exactly when the document does
\* not exist.
C13_NotFoundMessagesDistinct ==
    (IsLookup /\ q.paragraf # None /\ ~q.out.raised)
        => LET docs == Matches(q.id)
               found == \E d \in docs : \/ HasSection(d, q.paragraf[1])
                                        \/ HasSection(d, StripNr(q.paragraf[1]))
           IN  /\ SectionNotFoundMessage(q.out.text) <=> (docs # {} /\ ~found)
               /\ DocumentNotFoundMessage(q.out.text) <=> (docs = {})

\* C14: when the requested section does not exist and the section without
\* its nr clause does, the response is the formatted section and carries the
\* note that the requested section was not found as its own section,
\* whatever max_tokens is.
C14_NrRetryAnnotated ==
    (IsLookup /\ q.paragraf # None /\ ~q.out.raised
        /\ StripNr(q.paragraf[1]) # q.paragraf[1]
        /\ \E d \in Matches(q.id) : /\ ~HasSection(d, q.paragraf[1])
                                    /\ HasSection(d, StripNr(q.paragraf[1])))
        => /\ StartsWith(q.out.text, "## ")
           /\ str_contains(q.out.text, "ble ikke funnet som egen seksjon")

\* C19: get_document returns the document whose dok_id, ref_id or short
\* title (compared without regard to case) the id is, and a current one
\* when several match.
C19_GetDocumentMatches ==
    (q.op = "get_document")
        => LET matching == {d \in store.documents :
                              \/ q.id = d.dok_id
                              \/ q.id = d.ref_id
                              \/ str_lower(q.id) = str_lower(d.short_title)}
           IN  matching # {}
                 => /\ q.out # None
                    /\ q.out[1].dok_id \in {d.dok_id : d \in matching}
                    /\ (\E d \in matching : d.is_current = 1)
                          => q.out[1].is_current = PyInt(1)

\* the response shows text of the document: a section or the table of
\* contents
ShowsDocument(text) ==
    \/ StartsWith(text, "## ")
    \/ str_contains(text, "### Innholdsfortegnelse: ")

\* C20: a lookup that shows a section or the table of contents of a
\* document carries the banner that the text is no longer in force exactly
\* when the store holds is_current = 0 for the document.
C20_BannerIffNotCurrent ==
    (IsLookup /\ ~q.out.raised /\ ShowsDocument(q.out.text))
        => \A d \in Matches(q.id) :
              str_contains(q.out.text, BANNER) <=> (d.is_current = 0)

(***************************************************************************)
(* The claims about lookup_sections_batch.                                 *)
(***************************************************************************)
IsBatch == q.op = "lookup_sections_batch"

\* the call asked the store for sections
QueriedSections == "get_sections_batch" \in Range(q.out.calls)

\* C15: lookup_sections_batch answers an empty list with the input-error
\* message and a list of more than 50 ids with an error message, in both
\* cases without asking the store for sections; a list of 1 to 50 ids is
\* accepted and the store is asked.
C15_BatchSizeValidated ==
    (IsBatch /\ str_strip(q.id) # "")
        => LET n == Len(q.section_ids)
           IN  /\ n = 0 => /\ StartsWith(q.out.text,
                                         "**Feil:** Paragraf-listen kan ikke være tom.")
                           /\ ~QueriedSections
               /\ n > 50 => /\ StartsWith(q.out.text, "**Feil:** For mange paragrafer")
                            /\ ~QueriedSections
               /\ n \in 1..50 => /\ QueriedSections
                                 /\ ~StartsWith(q.out.text, "**Feil:**")

\* A list of 50 ids was accepted and the store asked for its sections.
C15_Witness ==
    /\ IsBatch
    /\ str_strip(q.id) # ""
    /\ Len(q.section_ids) = 50
    /\ QueriedSections

\* the text after the first occurrence of marker in s, if any
str_after(s, marker) ==
    LET at == {i \in 1..(Len(s) + 1) :
                 /\ i + Len(marker) - 1 <= Len(s)
                 /\ SubSeq(s, i, i + Len(marker) - 1) = marker}
        first == CHOOSE i \in at : \A j \in at : i <= j
    IN  IF at = {} THEN None ELSE Some(str_from(s, first + Len(marker) - 1))

\* the text of s before the first occurrence of the character c
str_before(s, c) ==
    LET at == {i \in 1..Len(s) : Char(s, i) = c}
        first == CHOOSE i \in at : \A j \in at : i <= j
    IN  IF at = {} THEN s ELSE str_upto(s, first - 1)

\* the ids a batch response lists as not found
ListedNotFound(text) ==
    LET list == str_after(text, "> **Ikke funnet:** ")
    IN  IF list = None THEN {}
        ELSE {str_strip(p) : p \in Range(str_split(str_before(list[1], "\n"), ","))}

\* the batch response shows the section that section_id names
ShownInBatch(text, section_id) ==
    \/ str_contains(text, "### § " \o clean_section_id(section_id) \o "\n")
    \/ str_contains(text, "### § " \o clean_section_id(section_id) \o ":")

\* C16: a response of lookup_sections_batch that shows sections lists as
\* not found no requested id whose section it shows, in whatever spelling
\* the id was asked for, and lists every requested id whose section the
\* store does not hold.
C16_MissingExactlyTheAbsent ==
    (IsBatch /\ ~q.out.raised /\ str_contains(q.out.text, "**Paragrafer:** "))
        => \A sid \in Range(q.section_ids) :
              /\ ShownInBatch(q.out.text, sid) => sid \notin ListedNotFound(q.out.text)
              /\ (\A d \in Matches(q.id) : ~HasSection(d, sid))
                    => sid \in ListedNotFound(q.out.text)

(***************************************************************************)
(* The claim about failing store calls.                                    *)
(***************************************************************************)
QueryOperations ==
    {"lookup_law", "lookup_regulation", "lookup_sections_batch", "search",
     "get_related_regulations", "list_ministries", "list_legal_areas"}

\* the call was given a blank id, a blank query or an empty list
BlankInput ==
    \/ q.op \in {"lookup_law", "lookup_sections_batch", "get_related_regulations"}
         /\ str_strip(q.id) = ""
    \/ q.op = "search" /\ str_strip(q.query) = ""
    \/ q.op = "lookup_sections_batch" /\ q.section_ids = << >>

\* C17: no query operation raises, whichever store calls fail: each returns
\* a text, and the text for a blank input starts with "**Feil:**".
C17_QueryNeverRaises ==
    q.op \in QueryOperations
        => /\ ~q.out.raised
           /\ BlankInput => StartsWith(q.out.text, "**Feil:**")

ELLIPSIS == "\n\n... [avkortet]"

\* the body of a section as the claim has it returned under a budget of m
\* tokens
CutBody(body, m) ==
    IF Len(body) > (7 * m) \div 2
    THEN str_upto(body, (7 * m) \div 2) \o ELLIPSIS
    ELSE body

\* C21: a lookup with max_tokens = m of a section the store holds shows the
\* section's body cut to its first floor(3.5 m) characters followed by the
\* ellipsis marker when the body is longer than that, and the whole body
\* without the marker otherwise.
C21_BodyCutToBudget ==
    (IsLookup /\ ~q.out.raised /\ q.paragraf # None /\ q.max_tokens # None
        /\ StartsWith(q.out.text, "## ")
        /\ \E d \in Matches(q.id) : HasSection(d, q.paragraf[1]))
        => \E d \in Matches(q.id) :
              /\ HasSection(d, q.paragraf[1])
              /\ LET body == store.sections[<< d.dok_id,
                                  clean_section_id(q.paragraf[1]) >>].content
                     m == q.max_tokens[1]
                 IN  /\ str_contains(q.out.text, CutBody(body, m))
                     /\ Len(body) <= (7 * m) \div 2
                           => ~str_contains(q.out.text, ELLIPSIS)

(***************************************************************************)
(* The claim about the natural order of section ids.                       *)
(***************************************************************************)
\* the section ids of a result of list_sections, in its order
ListedIds == [i \in 1..Len(q.out) |-> q.out[i].section_id]

\* a comes before b in the list
ListedBefore(a, b) ==
    \E i, j \in 1..Len(q.out) : i < j /\ ListedIds[i] = a /\ ListedIds[j] = b

NaturalChain == << "1", "1a", "2", "3-1", "10", "10a" >>

\* C22: list_sections returns the sections in the natural order of their
\* ids: "1", "1a", "2", "3-1", "10", "10a" come in that order, and the order
\* is total, so of any two distinct ids of the document the key of the one
\* listed first is strictly less than the key of the other, which fixes the
\* list.
C22_NaturalOrderTotal ==
    (q.op = "list_sections")
        => /\ \A i, j \in 1..Len(NaturalChain) :
                 (i < j /\ NaturalChain[i] \in Range(ListedIds)
                        /\ NaturalChain[j] \in Range(ListedIds))
                    => ListedBefore(NaturalChain[i], NaturalChain[j])
           /\ \A i, j \in 1..Len(q.out) :
                 i < j => KeyLess(sort_key(ListedIds[i]), sort_key(ListedIds[j]))

(***************************************************************************)
(* The claim about based_on.                                               *)
(***************************************************************************)
\* the pieces of s between the occurrences of sep
RECURSIVE SplitOn(_, _)
SplitOn(s, sep) ==
    LET rest == str_after(s, sep)
    IN  IF rest = None THEN << s >>
        ELSE << str_upto(s, Len(s) - Len(rest[1]) - Len(sep)) >> \o SplitOn(rest[1], sep)

\* the pairs a group of the output stands for: "doc", "doc § s" or
\* "doc §§ s1, s2"
GroupPairs(group) ==
    LET many == str_after(group, " §§ ")
        one == str_after(group, " § ")
    IN  IF many # None
        THEN { Ref(str_upto(group, Len(group) - Len(many[1]) - 4), Some(s))
               : s \in Range(SplitOn(many[1], ", ")) }
        ELSE IF one # None
        THEN { Ref(str_upto(group, Len(group) - Len(one[1]) - 3), Some(one[1])) }
        ELSE { Ref(group, None) }

\* the pairs the output stands for
OutputPairs(text) == UNION { GroupPairs(g) : g \in Range(SplitOn(text, "; ")) }

\* C23: the output of _format_based_on stands for exactly the (doc_id,
\* section?) pairs of its input: every reference of the input, bare or with
\* a section, is in the output, and the output holds no other pair.
C23_BasedOnPairsPreserved ==
    (q.op = "_format_based_on") => OutputPairs(q.out) = Range(q.refs)

(***************************************************************************)
(* The claim about re-ingesting an archive.                                *)
(***************************************************************************)
\* The running sync has the archive of the sync that completed before it.
SameArchiveAgain == synced[cur].archive = Some(run.tmp)

IsHeading(lines, i) == StartsWith(str_lstrip(lines[i]), "**")

\* line i of the table shows the section section_id
ShowsSection(lines, i, section_id) ==
    \/ StartsWith(str_lstrip(lines[i]), "- § " \o section_id \o ":")
    \/ StartsWith(str_lstrip(lines[i]), "- § " \o section_id \o " (")

\* The headings a section is shown under: heading n is that of the n-th
\* structure, and the heading after the last structure that of the other
\* sections.
RenderedUnder(lines, section_id) ==
    { Cardinality({j \in 1..i : IsHeading(lines, j)})
      : i \in {k \in 1..Len(lines) : ShowsSection(lines, k, section_id)} }

\* The structure of the longest address that is a prefix of the section's
\* address, or the group of the other sections.
DeepestPrefix(sec, structures) ==
    LET prefixes == {i \in 1..Len(structures) :
                       /\ AddressOf(structures[i]) # ""
                       /\ StartsWith(AddressOf(sec), AddressOf(structures[i]))}
    IN  IF prefixes = {} THEN Len(structures) + 1
        ELSE CHOOSE i \in prefixes :
                \A j \in prefixes :
                    Len(AddressOf(structures[j])) <= Len(AddressOf(structures[i]))

\* C25: the hierarchical table of contents shows each section under exactly
\* one heading, that of the structure with the longest address that is a
\* prefix of the section's address, or that of the other sections when no
\* structure's address is a prefix.
C25_SectionUnderDeepestStructure ==
    (q.op = "_format_hierarchical_toc")
        => \A i \in 1..Len(q.secs) :
              RenderedUnder(q.out, q.secs[i].section_id)
                = { DeepestPrefix(q.secs[i], q.structures) }

(***************************************************************************)
(* The claim about a failing upsert.                                       *)
(***************************************************************************)
\* the rows of sections of document d in the table secs_tab
RowsOf(secs_tab, d) == [k \in {j \in DOMAIN secs_tab : j[1] = d} |-> secs_tab[k]]

\* the table secs_tab holds every section of the file, with its content
HoldsAllOf(secs_tab, file) ==
    \A i \in 1..Len(file.secs) :
        /\ << file.dok_id, file.secs[i][1] >> \in DOMAIN secs_tab
        /\ secs_tab[<< file.dok_id, file.secs[i][1] >>] = file.secs[i][2]

\* C26: what an ingest commits for the document of a file is either what
\* was stored for it before, document row and sections, or the document row
\* with every section of the file: a document whose upsert failed is never
\* committed with its row and a part of its new sections.
C26_UpsertAllOrNothing ==
    [][ (pc = "index" /\ pc' = "fts")
          => \A f \in DOMAIN dir[cur] :
                dir[cur][f].ok
                  => LET d == dir[cur][f].dok_id
                     IN  \/ /\ RowsOf(sections', d) = RowsOf(sections, d)
                            /\ (d \in DOMAIN documents') = (d \in DOMAIN documents)
                         \/ /\ d \in DOMAIN documents'
                            /\ HoldsAllOf(sections', dir[cur][f]) ]_vars

(***************************************************************************)
(* The claims about the waits of with_retry.                               *)
(***************************************************************************)
\* C27: no wait between two attempts of with_retry exceeds the maximum
\* backoff, whether it comes from the exponential schedule or from a
\* Retry-After value.
C27_WaitWithinCap ==
    (rpc # "idle") => \A i \in 1..Len(rt.slept) : rt.slept[i] <= RETRY_BACKOFF_MAX

\* the failure is a 429 with a Retry-After of r > 0 seconds: a
\* RateLimitError that func raised, or a raw HTTP status error
Is429WithRetryAfter(e) ==
    /\ \/ e.cls = "RateLimitError"
       \/ e.cls = "HTTPStatusError" /\ e.status = 429
    /\ e.retry_after # None
    /\ e.retry_after[1] > 0

\* C29: after a 429 with Retry-After = r the wait before the next attempt is
\* min(r, maximum backoff), give or take the jitter of a quarter, on both
\* paths by which a 429 reaches the wrapper.
C29_RetryAfterHonoured ==
    [][ (rpc = "loop" /\ rpc' = "loop" /\ Is429WithRetryAfter(rt'.last_raised[1]))
          => LET b == Min(rt'.last_raised[1].retry_after[1] * 1000, RETRY_BACKOFF_MAX)
                 w == rt'.slept[Len(rt'.slept)]
             IN  /\ 4 * (w - b) <= b
                 /\ 4 * (b - w) <= b ]_vars

(***************************************************************************)
(* The claim about the cache of query embeddings.                          *)
(***************************************************************************)
\* The threads whose call of the embedding API for query is under way.
Posting(query) ==
    {t \in Callers : CallersOf(q)[t].pc = "post" /\ CallersOf(q)[t].query = query}

\* Thread t starts a call of the embedding API for query in this step.
StartsPost(t, query) ==
    /\ CallersOf(q)[t].pc = "idle"
    /\ CallersOf(q')[t].pc = "post"
    /\ CallersOf(q')[t].query = query

\* The call of the embedding API of thread t fails in this step.
PostFails(t) == CallersOf(q)[t].pc = "post" /\ CallersOf(q')[t].pc = "raised"

\* C28: the cache of _generate_query_embedding serializes access: while a
\* query is cached the embedding API is not called for it, two callers of
\* the same uncached query cause at most one call of the API, and a failed
\* call of the API stores no entry.
C28_CacheSerializesProviderCalls ==
    /\ [][\A t \in Callers, query \in SearchQueries :
            StartsPost(t, query) => query \notin embeddings]_vars
    /\ [](\A query \in SearchQueries : Cardinality(Posting(query)) <= 1)
    /\ [][\A t \in Callers : PostFails(t) => embeddings' = embeddings]_vars

(***************************************************************************)
(* The claim about the filters of hybrid search.                           *)
(***************************************************************************)
\* A hit satisfies the filters of the call of search.
HitHonours(hit, filters) ==
    /\ filters.doc_type # None => hit.doc_type = filters.doc_type[1]
    /\ filters.ministry # None =>
          /\ hit.ministry # None
          /\ str_contains(str_lower(hit.ministry[1]), str_lower(filters.ministry[1]))
    /\ filters.legal_area # None =>
          /\ hit.legal_area # None
          /\ str_contains(str_lower(hit.legal_area[1]),
                          str_lower(filters.legal_area[1]))
    /\ filters.exclude_amendments => hit.dok_id \notin Amendments

\* C30: every hit that search returns satisfies the doc_type, ministry and
\* legal_area filters of the call and, with exclude_amendments, belongs to
\* no amending document, whether the hits come from the hybrid rpc or from
\* the full-text fallback.
C30_FiltersHonouredOnEveryPath ==
    (q.op = "hybrid_search" /\ q.pc = "done" /\ ~q.out[1].raised)
        => \A i \in 1..Len(q.out[1].results) :
              HitHonours(q.out[1].results[i], q.filters)

====
